---- MODULE Spec2Model ----
(***************************************************************************)
(* Source Polling & Update Distribution Engine of TelegramNewsFeedBot.     *)
(*                                                                         *)
(* The model follows src/services/scheduler.py (SchedulerService),         *)
(* src/services/scraper.py (ScraperService.scrape_source and the per-type  *)
(* fetchers) and the rows of src/models/database.py.  asyncio runs one     *)
(* coroutine at a time, so the code between two awaits is one atomic       *)
(* action; every await is a point where the other coroutines may run.      *)
(*                                                                         *)
(* Persistence is SQLAlchemy's unit of work: a Session keeps the objects   *)
(* it loaded and their pending attribute writes; commit() writes every     *)
(* pending attribute of the session to the database and expires all its    *)
(* objects, which are reloaded from the database at their next access.     *)
(* commit() itself is taken to succeed.                                    *)
(***************************************************************************)
EXTENDS Integers, Sequences, FiniteSets, TLC

(* ------------------------------ bounds --------------------------------- *)
NumSources == 1         \* rows of table sources (Spec, SpecLife)
NumUsers == 1           \* subscribers
MaxTime == 2            \* the clock runs from 1 to MaxTime
MaxTasks == 2           \* scheduler loop tasks ever created by start()
MaxRetriesCfg == 1      \* config.MAX_RETRIES ranges over 0..MaxRetriesCfg
MaxFeedLen == 1         \* entries of a feed document
MaxChecks == 2          \* calls of _check_single_source in one run
MaxFilterLen == 2       \* items handed to one call of _filter_new_items
NumBatchSources == 2    \* rows of table sources (SpecBatch)
MaxTickSources == 12    \* rows of table sources (SpecTick)
MaxSubUsers == 3         \* users who subscribe (SpecSubscribe)
MaxBackoffRetries == 3  \* config.MAX_RETRIES ranges over 0..MaxBackoffRetries (SpecRetry)
MaxSendUsers == 2       \* subscription rows of the source (SpecSend)
MaxSendItems == 3       \* items handed to one distribution (SpecSend)
MaxItemsCfg == 2        \* config.MAX_ITEMS_PER_UPDATE ranges over 1..MaxItemsCfg (SpecSend)

(* ------------------------- program constants --------------------------- *)
DEACTIVATION_THRESHOLD == 10   \* if source.error_count >= 10
batch_size == 10               \* batch_size = 10
CUTOFF_HOURS == 24             \* timedelta(hours=24)
RETRY_DELAY == 5               \* config.RETRY_DELAY
SCHEDULER_INTERVAL == 300      \* config.SCHEDULER_INTERVAL
BATCH_PAUSE == 1               \* asyncio.sleep(1) between batches
COOL_DOWN == 60                \* asyncio.sleep(60) of except Exception in _run_scheduler

(* A nullable DateTime column: <<>> is NULL (None), <<t>> the instant t.    *)
NoTime == <<>>
At(t) == <<t>>
Sources == 1..NumSources
Users == 1..NumUsers
Tasks == 1..MaxTasks
ForceOwner == 0                \* the session of a force_check_source call
SendOwner == MaxTasks + 1      \* the session of a send_updates call
Owners == {ForceOwner} \cup Tasks \cup {SendOwner}

Min(a, b) == IF a < b THEN a ELSE b

RECURSIVE Pow2(_)
Pow2(n) == IF n = 0 THEN 1 ELSE 2 * Pow2(n - 1)

(* Python's seq[:n] for n >= 0. *)
Take(seq, n) == SubSeq(seq, 1, Min(n, Len(seq)))

(* ------------------------------ FeedItem ------------------------------- *)
(* FeedItem.published_at is a string; the model keeps the form of the      *)
(* string and the instant it denotes (hours).                              *)
(*   empty     ""                                                          *)
(*   iso       "2024-01-01T10:00:00"        (datetime.isoformat())          *)
(*   isoZ      "2024-01-01T10:00:00Z"                                      *)
(*   isoOffset "2024-01-01T10:00:00+02:00"                                 *)
(*   space     "2024-01-01 10:00:00"                                       *)
(*   rfc822    "Mon, 01 Jan 2024 10:00:00 GMT" (entry.published as is)     *)
(*   dateonly  "2024-01-01"                                                *)
(*   garbage   any other text without a 'T'                                *)
TimedForms == {"iso", "isoZ", "isoOffset", "space", "rfc822", "dateonly"}
PubForms == {"empty", "garbage"} \cup TimedForms

Published(form, t) == [form |-> form, t |-> IF form \in TimedForms THEN t ELSE 0]
FeedItem(id, pub) == [id |-> id, published_at |-> pub]

(* 'T' in item.published_at *)
HasT(pub) == pub.form \in {"iso", "isoZ", "isoOffset", "rfc822"}

(* datetime.fromisoformat(s.replace('Z', '+00:00')): a naive or an aware   *)
(* datetime, or ValueError.                                                *)
fromisoformat(pub) ==
    CASE pub.form = "iso" -> [ok |-> TRUE, aware |-> FALSE, t |-> pub.t]
      [] pub.form \in {"isoZ", "isoOffset"} -> [ok |-> TRUE, aware |-> TRUE, t |-> pub.t]
      [] OTHER -> [ok |-> FALSE, aware |-> FALSE, t |-> 0]

(* datetime.strptime(s, '%Y-%m-%d %H:%M:%S'): a naive datetime or ValueError. *)
strptime(pub) ==
    IF pub.form = "space"
    THEN [ok |-> TRUE, aware |-> FALSE, t |-> pub.t]
    ELSE [ok |-> FALSE, aware |-> FALSE, t |-> 0]

(* The loop body with an except clause that drops the item. *)
IsNewItemDropping(item, cutoff_time) ==
    IF item.published_at.form = "empty"
    THEN TRUE
    ELSE LET pub_date == IF HasT(item.published_at)
                         THEN fromisoformat(item.published_at)
                         ELSE strptime(item.published_at)
         IN  IF ~pub_date.ok THEN FALSE
             ELSE IF pub_date.aware THEN FALSE
             ELSE pub_date.t > cutoff_time

(* The body of the loop of _filter_new_items for one item: TRUE when the   *)
(* item is appended to new_items.  cutoff_time is a naive datetime, and    *)
(* comparing an aware datetime with it raises TypeError, which the except  *)
(* clause answers by appending the item.                                   *)
IsNewItem(item, cutoff_time) ==
    IF item.published_at.form = "empty"
    THEN TRUE
    ELSE LET pub_date == IF HasT(item.published_at)
                         THEN fromisoformat(item.published_at)
                         ELSE strptime(item.published_at)
         IN  IF ~pub_date.ok THEN TRUE          \* ValueError
             ELSE IF pub_date.aware THEN TRUE   \* TypeError
             ELSE pub_date.t > cutoff_time

filter_new_items(items, cutoff_time) ==
    SelectSeq(items, LAMBDA item : IsNewItem(item, cutoff_time))

(* process_content(item): the text sent for an item: the title line and,   *)
(* only when published_at is not empty, the timestamp line.                *)
process_content(item) ==
    [title |-> item.id,
     stamp |-> IF item.published_at.form = "empty" THEN <<>> ELSE <<item.published_at>>]

(* ------------------------------ fetchers ------------------------------- *)
(* What the network answers to one request of a fetcher: a failure (a      *)
(* status other than 200, a timeout) or a document with these entries.     *)
StaleTime == 0 - CUTOFF_HOURS
EntryDates(t) == {Published("empty", 0), Published("iso", t), Published("iso", StaleTime)}
Feeds(t) ==
    UNION {{[k \in 1..n |-> FeedItem(k, d[k])] : d \in [1..n -> EntryDates(t)]} :
              n \in 0..MaxFeedLen}
Failure == [ok |-> FALSE, entries |-> <<>>]
Document(entries) == [ok |-> TRUE, entries |-> entries]
Responses(t) == {Failure} \cup {Document(f) : f \in Feeds(t)}

SourceTypes == {"rss", "website", "youtube", "reddit", "twitter"}
Raised == [raised |-> TRUE, items |-> <<>>]
Returned(items) == [raised |-> FALSE, items |-> items]

(* _scrape_rss: raises on a failed request, else the first                 *)
(* MAX_ITEMS_PER_UPDATE entries of the feed.                               *)
scrape_rss(resp, max_items) ==
    IF ~resp.ok THEN Raised ELSE Returned(Take(resp.entries, max_items))

(* _scrape_website: as _scrape_rss, every item with published_at="".       *)
scrape_website(resp, max_items) ==
    IF ~resp.ok THEN Raised
    ELSE Returned([k \in 1..Min(max_items, Len(resp.entries)) |->
                      FeedItem(resp.entries[k].id, Published("empty", 0))])

(* A fetcher that lets the failure of _scrape_rss out. *)
scrape_unhandled(resp, max_items) == scrape_rss(resp, max_items)

(* _scrape_youtube, _scrape_reddit: _scrape_rss inside try/except          *)
(* Exception, which answers a failure with the empty list.  _scrape_twitter *)
(* does the same with each of its alternative feeds, lines 246-254, and    *)
(* returns the empty list when they have failed.                           *)
scrape_swallowing(resp, max_items) ==
    IF scrape_rss(resp, max_items).raised THEN Returned(<<>>) ELSE scrape_rss(resp, max_items)

(* One attempt of the loop of scrape_source: the dispatch on source_type.  *)
scrape_attempt(source_type, resp, max_items) ==
    CASE source_type = "rss" -> scrape_rss(resp, max_items)
      [] source_type \in {"youtube", "reddit", "twitter"} -> scrape_swallowing(resp, max_items)
      [] OTHER -> scrape_website(resp, max_items)

(* ------------------------------- state --------------------------------- *)
VARIABLES
    cfg,            \* config: MAX_RETRIES, MAX_ITEMS_PER_UPDATE
    now,            \* datetime.utcnow(), in hours
    sources,        \* table sources, committed: id -> row
    subscriptions,  \* table subscriptions, committed: sequence of rows, id = index
    is_running,     \* SchedulerService.is_running
    task,           \* SchedulerService.task: a loop task, or 0 for None
    loops,          \* the tasks running _run_scheduler
    stops,          \* the loop tasks a stop() call is awaiting (await self.task)
    sess,           \* per owner, its Session: loaded objects and pending writes
    checks,         \* per owner and source, the call of _check_single_source
    streak,         \* per source, how many of its latest checks failed in a row
    nchecks,        \* calls of _check_single_source or send_updates the run may still begin
    ev,             \* what the last step did (an observation, read by no action)
    filt            \* input and result of one call of _filter_new_items

vars == <<cfg, now, sources, subscriptions, is_running, task, loops, stops,
          sess, checks, streak, nchecks, ev, filt>>

(* The ids of the rows of table sources. *)
Stored == DOMAIN sources

Attrs == {"type", "is_active", "error_count", "check_count", "last_checked", "last_updated"}
NullRow == [type |-> "rss", is_active |-> FALSE, error_count |-> 0, check_count |-> 0,
            last_checked |-> NoTime, last_updated |-> NoTime]

NoEv == [type |-> "none"]
(* What scrape_source returned to a check: the answer of the network to    *)
(* the attempt that succeeded and the items made from it.                  *)
NoFetch == [resp |-> Failure, items |-> <<>>]
NoFilt == [items |-> <<>>, cutoff |-> 0, result |-> <<>>, done |-> FALSE]

(* A Session with nothing loaded and nothing pending. *)
EmptySession ==
    [obj |-> [s \in Stored |-> [loaded |-> FALSE, row |-> NullRow]],
     dirty |-> [s \in Stored |-> {}],
     subw |-> {}]

IdleLoop ==
    [pc |-> "none", srcs |-> <<>>, i |-> 0, cancel |-> FALSE, at_load |-> {},
     batches |-> <<>>, outcomes |-> <<>>, paces |-> 0, failed |-> FALSE]

IdleCheck ==
    [pc |-> "idle", attempt |-> 0, fetch |-> NoFetch, new_items |-> <<>>, subs |-> <<>>,
     i |-> 0, j |-> 0, cancel |-> FALSE, started |-> 0, pre |-> NullRow, solo |-> TRUE,
     log |-> <<>>, eligible |-> {}, result |-> "none"]

(* The rows a database can hold when the service is constructed: a source  *)
(* checked DEACTIVATION_THRESHOLD - 1 times, every check a success or      *)
(* every check a failure, and never yet with new content.                  *)
InitRows(types) ==
    {[type |-> ty, is_active |-> TRUE, error_count |-> e,
      check_count |-> DEACTIVATION_THRESHOLD - 1,
      last_checked |-> At(0), last_updated |-> NoTime] :
        ty \in types, e \in {0, DEACTIVATION_THRESHOLD - 1}}

(* Every user is subscribed to every source (callback_subscribe). *)
InitSubscriptions ==
    [k \in 1..(NumUsers * NumSources) |->
        [user_id |-> ((k - 1) % NumUsers) + 1, source_id |-> ((k - 1) \div NumUsers) + 1,
         is_active |-> TRUE, notification_enabled |-> TRUE, last_notified |-> NoTime]]

Init ==
    /\ cfg \in [MAX_RETRIES : 0..MaxRetriesCfg, MAX_ITEMS_PER_UPDATE : {MaxFeedLen}]
    /\ now = 1
    /\ sources \in [Sources -> InitRows({"rss"})]
    /\ subscriptions = InitSubscriptions
    /\ is_running = FALSE
    /\ task = 0
    /\ loops = [k \in Tasks |-> IdleLoop]
    /\ stops = {}
    /\ sess = [o \in Owners |-> EmptySession]
    /\ checks = [o \in Owners |-> [s \in Stored |-> IdleCheck]]
    /\ streak = [s \in Stored |-> sources[s].error_count]
    /\ nchecks = MaxChecks
    /\ ev = NoEv
    /\ filt = NoFilt

(* ------------------------ persistence helpers -------------------------- *)
(* Ascending sequence of a finite set of numbers (rows in id order). *)
RECURSIVE SetToSeq(_)
SetToSeq(S) ==
    IF S = {} THEN <<>>
    ELSE LET m == CHOOSE x \in S : \A y \in S : x <= y
         IN  <<m>> \o SetToSeq(S \ {m})

(* The query without its filter: every source, active or not. *)
query_all_sources == SetToSeq(Stored)

(* session.query(Source).filter(Source.is_active == True).all() *)
query_active_sources == SetToSeq({s \in Stored : sources[s].is_active})

(* The query without its filter on notification_enabled.                    *)
query_subscriptions_active(s) ==
    SetToSeq({k \in DOMAIN subscriptions :
                 /\ subscriptions[k].source_id = s
                 /\ subscriptions[k].is_active})

(* session.query(Subscription).filter(source_id == s, is_active == True,   *)
(* notification_enabled == True).all(): the ids of the rows.               *)
query_subscriptions(s) ==
    SetToSeq({k \in DOMAIN subscriptions :
                 /\ subscriptions[k].source_id = s
                 /\ subscriptions[k].is_active
                 /\ subscriptions[k].notification_enabled})

(* The committed rows of table subscriptions for source s that have both   *)
(* flags set.                                                              *)
Eligible(s) ==
    {k \in DOMAIN subscriptions :
        /\ subscriptions[k].source_id = s
        /\ subscriptions[k].is_active
        /\ subscriptions[k].notification_enabled}

(* The rows that had both flags set when the distribution of check c of    *)
(* source s ran its query: now, when the query is part of this step.       *)
EligibleAtQuery(c, s) == IF c.pc \in {"send", "pace"} THEN c.eligible ELSE Eligible(s)

(* The object of source s as session o reads it: the loaded object, or,    *)
(* when the object is expired, the committed row it is reloaded from.      *)
View(o, s) == IF sess[o].obj[s].loaded THEN sess[o].obj[s].row ELSE sources[s]

(* session.commit() of a session whose objects are obj with pending        *)
(* attributes dirty: the committed rows afterwards.                        *)
CommittedSources(obj, dirty) ==
    [s \in Stored |->
        [a \in Attrs |-> IF a \in dirty[s] THEN obj[s].row[a] ELSE sources[s][a]]]

CommittedSubscriptions(subw) ==
    [k \in DOMAIN subscriptions |->
        IF \E p \in subw : p[1] = k
        THEN [subscriptions[k] EXCEPT
                 !.last_notified = At((CHOOSE p \in subw : p[1] = k)[2])]
        ELSE subscriptions[k]]

InFlight(c) == c.pc \in {"fetch", "backoff", "send", "pace"}

(* ---------------------- _check_single_source --------------------------- *)
(* The end of a check: session.commit() with the object of s being row     *)
(* and its pending attributes dirty, then the return.  A commit writes     *)
(* the pending attributes of every object of the session.  The checks of   *)
(* other sessions on a row this commit writes are no longer alone on it.   *)
CommitAndReturn(o, s, row, dirty, result, fetch_ok, fetch, new_items, log) ==
    LET obj == [sess[o].obj EXCEPT ![s] = [loaded |-> TRUE, row |-> row]]
        drt == [sess[o].dirty EXCEPT ![s] = dirty]
        written == {x \in Stored : drt[x] # {}}
        c == checks[o][s]
    IN  /\ sources' = CommittedSources(obj, drt)
        /\ subscriptions' = CommittedSubscriptions(sess[o].subw)
        /\ sess' = [sess EXCEPT ![o] = EmptySession]
        /\ checks' = [p \in Owners |-> [x \in Stored |->
              IF p = o /\ x = s
              THEN IF o = ForceOwner THEN IdleCheck
                   ELSE [IdleCheck EXCEPT !.pc = "done", !.result = result, !.pre = c.pre]
              ELSE IF p # o /\ x \in written /\ InFlight(checks[p][x])
                   THEN [checks[p][x] EXCEPT !.solo = FALSE]
                   ELSE checks[p][x]]]
        /\ streak' = [streak EXCEPT ![s] = IF result = "ok" THEN 0 ELSE @ + 1]
        /\ ev' = [type |-> "check_done", owner |-> o, src |-> s, result |-> result,
                  fetch_ok |-> fetch_ok, attempts |-> c.attempt + 1,
                  fetch |-> fetch, new_items |-> new_items,
                  subs |-> c.subs, log |-> log,
                  eligible |-> EligibleAtQuery(c, s),
                  notified |-> {w[1] : w \in sess[o].subw},
                  pre |-> c.pre, before |-> sources[s], post |-> sources'[s],
                  started |-> c.started,
                  solo |-> c.solo,
                  deactivated |-> "is_active" \in dirty,
                  force_returns |-> (o = ForceOwner)]

(* Lines 148-155: the check timestamp and counter, then the first attempt  *)
(* of scrape_source is awaited.  pre is the committed row when the check   *)
(* begins; solo says that the session's object is that row and that no     *)
(* other session has written the row since.                                *)
BeginCheck(o, s) ==
    LET row == View(o, s)
    IN  /\ nchecks > 0
        /\ nchecks' = nchecks - 1
        /\ sess' = [sess EXCEPT
              ![o].obj[s] = [loaded |-> TRUE,
                             row |-> [row EXCEPT !.last_checked = At(now),
                                                 !.check_count = @ + 1]],
              ![o].dirty[s] = @ \cup {"last_checked", "check_count"}]
        /\ checks' = [checks EXCEPT ![o][s] =
              [IdleCheck EXCEPT !.pc = "fetch", !.started = now, !.pre = sources[s],
                                !.solo = (row = sources[s])]]
        /\ ev' = [type |-> "fetch", owner |-> o, src |-> s, attempt |-> 0]

(* except ScraperError counting every failed attempt of the fetch. *)
OnScraperErrorPerAttempt(o, s) ==
    LET row == View(o, s)
        n == row.error_count + checks[o][s].attempt + 1
        row1 == [row EXCEPT !.error_count = n,
                            !.is_active = IF n >= DEACTIVATION_THRESHOLD THEN FALSE ELSE @]
        dirty == sess[o].dirty[s] \cup {"error_count"}
                 \cup (IF n >= DEACTIVATION_THRESHOLD THEN {"is_active"} ELSE {})
    IN  CommitAndReturn(o, s, row1, dirty, "scraper_error", FALSE, NoFetch, <<>>, <<>>)

(* Lines 180-189: except ScraperError. *)
OnScraperError(o, s) ==
    LET row == View(o, s)
        n == row.error_count + 1
        row1 == [row EXCEPT !.error_count = n,
                            !.is_active = IF n >= DEACTIVATION_THRESHOLD THEN FALSE ELSE @]
        dirty == sess[o].dirty[s] \cup {"error_count"}
                 \cup (IF n >= DEACTIVATION_THRESHOLD THEN {"is_active"} ELSE {})
    IN  CommitAndReturn(o, s, row1, dirty, "scraper_error", FALSE, NoFetch, <<>>, <<>>)

(* except Exception with the threshold test of except ScraperError. *)
OnUnexpectedErrorDeactivating(o, s, fetch, new_items) ==
    LET row == View(o, s)
        n == row.error_count + 1
        row1 == [row EXCEPT !.error_count = n,
                            !.is_active = IF n >= DEACTIVATION_THRESHOLD THEN FALSE ELSE @]
        dirty == sess[o].dirty[s] \cup {"error_count"}
                 \cup (IF n >= DEACTIVATION_THRESHOLD THEN {"is_active"} ELSE {})
    IN  CommitAndReturn(o, s, row1, dirty, "unexpected", TRUE, fetch, new_items, <<>>)

(* Lines 191-194: except Exception. *)
OnUnexpectedError(o, s, fetch, new_items) ==
    LET row == View(o, s)
        row1 == [row EXCEPT !.error_count = @ + 1]
    IN  CommitAndReturn(o, s, row1, sess[o].dirty[s] \cup {"error_count"},
                        "unexpected", TRUE, fetch, new_items, <<>>)

(* Lines 172-178 without line 173: the watermark stays where it was. *)
OnDistributedKeepingWatermark(o, s, fetch, new_items, log) ==
    LET row == View(o, s)
        row1 == [row EXCEPT !.error_count = 0]
    IN  CommitAndReturn(o, s, row1, sess[o].dirty[s] \cup {"error_count"},
                        "ok", TRUE, fetch, new_items, log)

(* Lines 172-178 without line 174: the error count stays where it was. *)
OnDistributedKeepingErrorCount(o, s, fetch, new_items, log) ==
    LET row == View(o, s)
        row1 == [row EXCEPT !.last_updated = At(now)]
    IN  CommitAndReturn(o, s, row1, sess[o].dirty[s] \cup {"last_updated"},
                        "ok", TRUE, fetch, new_items, log)

(* A successful distribution that also sets the activation flag. *)
OnDistributedReactivating(o, s, fetch, new_items, log) ==
    LET row == View(o, s)
        row1 == [row EXCEPT !.last_updated = At(now), !.error_count = 0, !.is_active = TRUE]
    IN  CommitAndReturn(o, s, row1,
                        sess[o].dirty[s] \cup {"last_updated", "error_count", "is_active"},
                        "ok", TRUE, fetch, new_items, log)

(* Lines 172-178: the watermark and the reset of the error count, commit.  *)
OnDistributed(o, s, fetch, new_items, log) ==
    LET row == View(o, s)
        row1 == [row EXCEPT !.last_updated = At(now), !.error_count = 0]
    IN  CommitAndReturn(o, s, row1, sess[o].dirty[s] \cup {"last_updated", "error_count"},
                        "ok", TRUE, fetch, new_items, log)

(* Nothing to distribute and a return without the commit: the pending      *)
(* writes of the check are dropped.                                        *)
OnNothingNewNoCommit(o, s, fetch) ==
    CommitAndReturn(o, s, sources[s], {}, "ok", TRUE, fetch, <<>>, <<>>)

(* Lines 157-160 and 175-178: nothing to distribute, commit. *)
OnNothingNew(o, s, fetch) ==
    CommitAndReturn(o, s, View(o, s), sess[o].dirty[s], "ok", TRUE, fetch, <<>>, <<>>)

(* The loop of line 256 without its slice: every item is sent. *)
ItemsToSendAll(c) == c.new_items

(* The items _send_updates_to_subscribers sends: items[:MAX_ITEMS_PER_UPDATE]. *)
ItemsToSend(c) == Take(c.new_items, cfg.MAX_ITEMS_PER_UPDATE)

Unchanged_service == UNCHANGED <<cfg, now, is_running, task, loops, stops, filt>>
Unchanged_count == UNCHANGED nchecks

(* A batch task of _process_source_batch starts to run its check. *)
check_single_source(k, s) ==
    /\ k \in Tasks
    /\ checks[k][s].pc = "new"
    /\ ~checks[k][s].cancel
    /\ BeginCheck(k, s)
    /\ UNCHANGED <<sources, subscriptions, streak>>
    /\ Unchanged_service

(* One retry more than configured. *)
RetriesLeftOneMore(c) == c.attempt < cfg.MAX_RETRIES + 1

(* scrape_source, line 165: if attempt < config.MAX_RETRIES *)
RetriesLeft(c) == c.attempt < cfg.MAX_RETRIES

(* A delay that grows by RETRY_DELAY with every attempt. *)
BackoffDelayLinear(attempt) == RETRY_DELAY * (attempt + 1)

(* scrape_source, line 166: delay = config.RETRY_DELAY * (2 ** attempt) *)
BackoffDelay(attempt) == RETRY_DELAY * Pow2(attempt)

(* scrape_source, lines 162-171: the awaited attempt raised.  Either the   *)
(* backoff sleep starts, or ScraperError is raised to the check.           *)
scrape_attempt_failed(o, s, resp) ==
    LET c == checks[o][s]
    IN  /\ c.pc = "fetch"
        /\ ~c.cancel
        /\ scrape_attempt(View(o, s).type, resp, cfg.MAX_ITEMS_PER_UPDATE).raised
        /\ IF RetriesLeft(c)
           THEN /\ checks' = [checks EXCEPT ![o][s].pc = "backoff"]
                /\ ev' = [type |-> "attempt_failed", owner |-> o, src |-> s,
                          attempt |-> c.attempt,
                          delay |-> BackoffDelay(c.attempt)]
                /\ UNCHANGED <<sources, subscriptions, sess, streak>>
           ELSE OnScraperError(o, s)
        /\ Unchanged_service /\ Unchanged_count

(* asyncio.sleep(delay) of scrape_source is over: the next attempt. *)
backoff_done(o, s) ==
    LET c == checks[o][s]
    IN  /\ c.pc = "backoff"
        /\ ~c.cancel
        /\ checks' = [checks EXCEPT ![o][s].pc = "fetch", ![o][s].attempt = @ + 1]
        /\ ev' = [type |-> "fetch", owner |-> o, src |-> s, attempt |-> c.attempt + 1]
        /\ UNCHANGED <<sources, subscriptions, sess, streak>>
        /\ Unchanged_service /\ Unchanged_count

(* The awaited attempt returned items: lines 157-170 up to the first       *)
(* send_message.  query_fails: the subscription query raises (a            *)
(* persistence failure), which reaches except Exception.                   *)
scrape_returned(o, s, resp, query_fails) ==
    LET c == checks[o][s]
        row == View(o, s)
    IN  /\ c.pc = "fetch"
        /\ ~c.cancel
        /\    LET r == scrape_attempt(row.type, resp, cfg.MAX_ITEMS_PER_UPDATE)
                  items == r.items
                  fetch == [resp |-> resp, items |-> items]
                  cutoff_time == IF row.last_updated # NoTime
                                 THEN row.last_updated[1]
                                 ELSE now - CUTOFF_HOURS
                  new_items == filter_new_items(items, cutoff_time)
                  subs == query_subscriptions(s)
              IN  /\ ~r.raised
                  /\ IF items = <<>> \/ new_items = <<>>
                     THEN ~query_fails /\ OnNothingNew(o, s, fetch)
                     ELSE IF query_fails
                     THEN OnUnexpectedError(o, s, fetch, new_items)
                     ELSE IF subs = <<>>
                     THEN OnDistributed(o, s, fetch, new_items, <<>>)
                     ELSE /\ checks' = [checks EXCEPT ![o][s] =
                                [c EXCEPT !.pc = "send", !.fetch = fetch,
                                          !.new_items = new_items, !.subs = subs,
                                          !.i = 1, !.j = 1, !.eligible = Eligible(s)]]
                          /\ ev' = [type |-> "send", owner |-> o, src |-> s,
                                    item |-> new_items[1],
                                    user |-> subscriptions[subs[1]].user_id,
                                    text |-> process_content(new_items[1]),
                                    paused |-> FALSE]
                          /\ UNCHANGED <<sources, subscriptions, sess, streak>>
        /\ Unchanged_service /\ Unchanged_count

(* send_updates, lines 355-358: _send_updates_to_subscribers returned to   *)
(* the with block, whose exit closes the Session; nothing was committed,   *)
(* so the last_notified writes of the call are dropped.                    *)
SendReturned(o, s, items, subs, log) ==
    /\ sess' = [sess EXCEPT ![o] = EmptySession]
    /\ checks' = [checks EXCEPT ![o][s] = IdleCheck]
    /\ ev' = [type |-> "send_updates_done", owner |-> o, src |-> s,
              new_items |-> items, subs |-> subs, log |-> log,
              eligible |-> EligibleAtQuery(checks[o][s], s),
              notified |-> {w[1] : w \in sess[o].subw}]
    /\ UNCHANGED <<sources, subscriptions, streak>>

(* The two loops of lines 256 and 259 exchanged: after a delivery attempt  *)
(* the next item for the same subscriber, else the next subscriber.        *)
NextDeliveryBySubscriber(o, s, subw, log) ==
    LET c == checks[o][s]
        items == ItemsToSend(c)
        more == c.i < Len(items) \/ c.j < Len(c.subs)
        i1 == IF c.i < Len(items) THEN c.i + 1 ELSE 1
        j1 == IF c.i < Len(items) THEN c.j ELSE c.j + 1
    IN  IF more
        THEN /\ checks' = [checks EXCEPT ![o][s].pc = "send", ![o][s].i = i1,
                                        ![o][s].j = j1, ![o][s].log = log]
             /\ ev' = [type |-> "send", owner |-> o, src |-> s, item |-> items[i1],
                       user |-> subscriptions[c.subs[j1]].user_id,
                       text |-> process_content(items[i1]),
                       paused |-> c.pc = "pace"]
             /\ sess' = [sess EXCEPT ![o].subw = subw]
             /\ UNCHANGED <<sources, subscriptions, streak>>
        ELSE IF o = SendOwner
        THEN SendReturned(o, s, c.new_items, c.subs, log)
        ELSE OnDistributed(o, s, c.fetch, c.new_items, log)

(* After a delivery attempt: the next subscriber, else the next item, else *)
(* the return to the caller: lines 172-178 of a check, the with block of   *)
(* send_updates.                                                           *)
NextDelivery(o, s, subw, log) ==
    LET c == checks[o][s]
        items == ItemsToSend(c)
        more == c.j < Len(c.subs) \/ c.i < Len(items)
        i1 == IF c.j < Len(c.subs) THEN c.i ELSE c.i + 1
        j1 == IF c.j < Len(c.subs) THEN c.j + 1 ELSE 1
    IN  IF more
        THEN /\ checks' = [checks EXCEPT ![o][s].pc = "send", ![o][s].i = i1,
                                        ![o][s].j = j1, ![o][s].log = log]
             /\ ev' = [type |-> "send", owner |-> o, src |-> s, item |-> items[i1],
                       user |-> subscriptions[c.subs[j1]].user_id,
                       text |-> process_content(items[i1]),
                       paused |-> c.pc = "pace"]
             /\ sess' = [sess EXCEPT ![o].subw = subw]
             /\ UNCHANGED <<sources, subscriptions, streak>>
        ELSE IF o = SendOwner
        THEN SendReturned(o, s, c.new_items, c.subs, log)
        ELSE OnDistributed(o, s, c.fetch, c.new_items, log)

(* The delivery attempt a check at pc "send" is awaiting, and how it ended. *)
Attempt(c, ok) ==
    [item |-> ItemsToSend(c)[c.i], user |-> subscriptions[c.subs[c.j]].user_id, ok |-> ok]

(* bot.send_message returned: last_notified is set, asyncio.sleep(0.1). *)
send_message_ok(o, s) ==
    LET c == checks[o][s]
        k == c.subs[c.j]
    IN  /\ c.pc = "send"
        /\ ~c.cancel
        /\ sess' = [sess EXCEPT ![o].subw = {p \in @ : p[1] # k} \cup {<<k, now>>}]
        /\ checks' = [checks EXCEPT ![o][s].pc = "pace",
                                   ![o][s].log = Append(@, Attempt(c, TRUE))]
        /\ ev' = [type |-> "delivered", owner |-> o, src |-> s,
                  item |-> ItemsToSend(c)[c.i], user |-> subscriptions[k].user_id]
        /\ UNCHANGED <<sources, subscriptions, streak>>
        /\ Unchanged_service /\ Unchanged_count

(* asyncio.sleep(0.1) after a delivery is over. *)
send_pause_done(o, s) ==
    /\ checks[o][s].pc = "pace"
    /\ ~checks[o][s].cancel
    /\ NextDelivery(o, s, sess[o].subw, checks[o][s].log)
    /\ Unchanged_service /\ Unchanged_count

(* bot.send_message raised and the exception leaves both loops: the        *)
(* distribution ends at the first failed delivery.                         *)
send_message_failed_aborting(o, s) ==
    LET c == checks[o][s]
        log == Append(c.log, Attempt(c, FALSE))
    IN  /\ c.pc = "send"
        /\ ~c.cancel
        /\ IF o = SendOwner
           THEN SendReturned(o, s, c.new_items, c.subs, log)
           ELSE OnDistributed(o, s, c.fetch, c.new_items, log)
        /\ Unchanged_service /\ Unchanged_count

(* bot.send_message raised and nothing in _send_updates_to_subscribers     *)
(* catches the exception: it reaches except Exception of the check.        *)
send_message_failed_raising(o, s) ==
    /\ checks[o][s].pc = "send"
    /\ ~checks[o][s].cancel
    /\ CommitAndReturn(o, s, [View(o, s) EXCEPT !.error_count = @ + 1],
                       sess[o].dirty[s] \cup {"error_count"}, "unexpected", TRUE,
                       checks[o][s].fetch, checks[o][s].new_items,
                       Append(checks[o][s].log, Attempt(checks[o][s], FALSE)))
    /\ Unchanged_service /\ Unchanged_count

(* bot.send_message raised, and last_notified of the subscription is set   *)
(* all the same.                                                           *)
send_message_failed_notifying(o, s) ==
    /\ checks[o][s].pc = "send"
    /\ ~checks[o][s].cancel
    /\ NextDelivery(o, s,
                    {p \in sess[o].subw : p[1] # checks[o][s].subs[checks[o][s].j]}
                        \cup {<<checks[o][s].subs[checks[o][s].j], now>>},
                    Append(checks[o][s].log, Attempt(checks[o][s], FALSE)))
    /\ Unchanged_service /\ Unchanged_count

(* bot.send_message raised: lines 274-281 log it, and the loop goes on     *)
(* without the sleep.                                                      *)
send_message_failed(o, s) ==
    /\ checks[o][s].pc = "send"
    /\ ~checks[o][s].cancel
    /\ NextDelivery(o, s, sess[o].subw,
                    Append(checks[o][s].log, Attempt(checks[o][s], FALSE)))
    /\ Unchanged_service /\ Unchanged_count

(* CancelledError is thrown into a batch task at its await (or before it   *)
(* first runs): no except clause of the check catches it, nothing is       *)
(* committed, the pending writes stay in the session.                      *)
check_cancelled(k, s) ==
    /\ k \in Tasks
    /\ checks[k][s].cancel
    /\ checks[k][s].pc \in {"new", "fetch", "backoff", "send", "pace"}
    /\ checks' = [checks EXCEPT ![k][s] = [IdleCheck EXCEPT !.pc = "cancelled"]]
    /\ ev' = [type |-> "check_cancelled", owner |-> k, src |-> s,
              started |-> checks[k][s].pc # "new",
              pre |-> checks[k][s].pre, solo |-> checks[k][s].solo]
    /\ UNCHANGED <<sources, subscriptions, sess, streak>>
    /\ Unchanged_service /\ Unchanged_count

(* --------------------------- SchedulerService -------------------------- *)
Unchanged_data == UNCHANGED <<cfg, now, sources, subscriptions, streak, nchecks, filt>>

Alive(k) == loops[k].pc \notin {"none", "done"}
AliveLoopTasks == {k \in Tasks : Alive(k)}

(* The sources of the batch of loop task k that starts at index i. *)
Batch(srcs, i) == {srcs[n] : n \in (i + 1)..Min(i + batch_size, Len(srcs))}

(* start(), lines 42-50. *)
start ==
    IF is_running
    THEN /\ ev' = [type |-> "start", already_running |-> TRUE, created |-> 0]
         /\ UNCHANGED <<is_running, task, loops, stops, sess, checks>>
         /\ Unchanged_data
    ELSE \E k \in Tasks :
         /\ loops[k].pc = "none"
         /\ \A j \in Tasks : j < k => loops[j].pc # "none"
         /\ is_running' = TRUE
         /\ task' = k
         /\ loops' = [loops EXCEPT ![k] = [IdleLoop EXCEPT !.pc = "new"]]
         /\ ev' = [type |-> "start", already_running |-> FALSE, created |-> k]
         /\ UNCHANGED <<stops, sess, checks>>
         /\ Unchanged_data

(* task.cancel(): the request is recorded; a task awaiting gather passes   *)
(* it on to the batch tasks that are not done.                             *)
CancelledLoops(k) ==
    IF k # 0 /\ Alive(k) THEN [loops EXCEPT ![k].cancel = TRUE] ELSE loops
CancelledChecks(k) ==
    IF k # 0 /\ loops[k].pc = "gather"
    THEN [checks EXCEPT ![k] = [s \in Stored |->
             IF checks[k][s].pc \in {"idle", "done", "cancelled"} THEN checks[k][s]
             ELSE [checks[k][s] EXCEPT !.cancel = TRUE]]]
    ELSE checks

(* stop(), lines 52-62, up to await self.task; the await of a task that is *)
(* already done returns at once.                                           *)
stop ==
    IF ~is_running
    THEN /\ ev' = [type |-> "stop", not_running |-> TRUE, returned |-> TRUE]
         /\ UNCHANGED <<is_running, task, loops, stops, sess, checks>>
         /\ Unchanged_data
    ELSE /\ is_running' = FALSE
         /\ loops' = CancelledLoops(task)
         /\ checks' = CancelledChecks(task)
         /\ stops' = IF task # 0 /\ Alive(task) THEN stops \cup {task} ELSE stops
         /\ ev' = [type |-> "stop", not_running |-> FALSE,
                   returned |-> ~(task # 0 /\ Alive(task))]
         /\ UNCHANGED <<task, sess>>
         /\ Unchanged_data

(* stop(), lines 62-66: the awaited task is done, stop() returns. *)
stop_returned(k) ==
    /\ k \in stops
    /\ loops[k].pc = "done"
    /\ stops' = stops \ {k}
    /\ ev' = [type |-> "stop_returned", awaited |-> k]
    /\ UNCHANGED <<is_running, task, loops, sess, checks>>
    /\ Unchanged_data

(* _check_all_sources from its first line to its first await, for the      *)
(* batch at index i of the loaded sources: _process_source_batch creates   *)
(* one task per source and awaits gather.  paces counts the sleeps of line  *)
(* 108 that the cycle has slept through.                                   *)
StartBatch(k, srcs, i, at_load, paces) ==
    /\ loops' = [loops EXCEPT ![k] =
          [pc |-> "gather", srcs |-> srcs, i |-> i, cancel |-> FALSE, at_load |-> at_load,
           batches |-> Append(loops[k].batches,
                              SubSeq(srcs, i + 1, Min(i + batch_size, Len(srcs)))),
           outcomes |-> loops[k].outcomes, paces |-> paces, failed |-> FALSE]]
    /\ checks' = [checks EXCEPT ![k] = [s \in Stored |->
          IF s \in Batch(srcs, i) THEN [IdleCheck EXCEPT !.pc = "new"] ELSE IdleCheck]]

(* A failed cycle that escapes to except Exception of _run_scheduler and   *)
(* is followed by its cool-down.                                           *)
SleepAfterCycleCoolDown(failed) == IF failed THEN COOL_DOWN ELSE SCHEDULER_INTERVAL

(* The sleep of _run_scheduler after _check_all_sources has returned, line *)
(* 75.  A cycle that failed returns as well: except Exception of line 110  *)
(* logs the error and lets nothing out, so that except Exception of line   *)
(* 79 and its sleep of line 82 are not reached from a failure of the       *)
(* cycle.                                                                  *)
SleepAfterCycle(failed) == SCHEDULER_INTERVAL

(* A loop task runs after its creation or after a sleep (lines 72-75 and   *)
(* 86-108).  After the sleep between two batches the next batch starts.    *)
(* Otherwise an iteration of while self.is_running: the Session is opened  *)
(* and the active sources are loaded; load_fails is a persistence failure  *)
(* of that query, which except Exception of line 110 logs, so that the     *)
(* cycle returns and the loop sleeps SCHEDULER_INTERVAL.                   *)
run_scheduler(k, load_fails) ==
    /\ loops[k].pc \in {"new", "sleep", "pace"}
    /\ ~loops[k].cancel
    /\    LET srcs == query_active_sources
          IN  IF loops[k].pc = "pace"
              THEN /\ ~load_fails
                   /\ StartBatch(k, loops[k].srcs, loops[k].i + batch_size, loops[k].at_load,
                                 loops[k].paces + 1)
                   /\ ev' = [type |-> "batch", task |-> k, index |-> loops[k].i + batch_size]
                   /\ UNCHANGED sess
              ELSE IF ~is_running
              THEN /\ ~load_fails
                   /\ loops' = [loops EXCEPT ![k] = [IdleLoop EXCEPT !.pc = "done"]]
                   /\ ev' = [type |-> "loop_exit", task |-> k]
                   /\ UNCHANGED <<sess, checks>>
              ELSE IF load_fails \/ srcs = <<>>
              THEN /\ loops' = [loops EXCEPT ![k] =
                         [IdleLoop EXCEPT !.pc = "sleep", !.failed = load_fails]]
                   /\ ev' = [type |-> "tick", task |-> k, loaded |-> <<>>,
                             failed |-> load_fails, sleep |-> SleepAfterCycle(load_fails),
                             after_failure |-> loops[k].failed]
                   /\ UNCHANGED <<sess, checks>>
              ELSE /\ StartBatch(k, srcs, 0, {s \in Stored : sources[s].is_active}, 0)
                   /\ sess' = [sess EXCEPT ![k] =
                         [EmptySession EXCEPT !.obj = [s \in Stored |->
                             IF s \in Batch(srcs, 0) \/ \E n \in 1..Len(srcs) : srcs[n] = s
                             THEN [loaded |-> TRUE, row |-> sources[s]]
                             ELSE [loaded |-> FALSE, row |-> NullRow]]]]
                   /\ ev' = [type |-> "tick", task |-> k, loaded |-> srcs,
                             failed |-> FALSE, sleep |-> 0,
                             after_failure |-> loops[k].failed]
    /\ UNCHANGED <<is_running, task, stops>>
    /\ Unchanged_data

(* What the checks of the cycle of loop task k have returned so far, the   *)
(* batch that gather awaits included: per source, in the order of the      *)
(* batches, how its check ended ("none" for a check that did not end) and  *)
(* the committed row of the source when the check began.                   *)
BatchOutcomes(k) ==
    LET b == loops[k].batches[Len(loops[k].batches)]
    IN  loops[k].outcomes \o
        [n \in 1..Len(b) |-> [src |-> b[n], result |-> checks[k][b[n]].result,
                              pre |-> checks[k][b[n]].pre]]

(* gather that returns as soon as one check of the batch has failed. *)
GatherReturnsAtFailure(k) ==
    \/ \A s \in Batch(loops[k].srcs, loops[k].i) : checks[k][s].pc = "done"
    \/ \E s \in Batch(loops[k].srcs, loops[k].i) :
          checks[k][s].pc = "done" /\ checks[k][s].result # "ok"

(* A wait that returns with the first task of the batch that is done. *)
GatherReturnsAtFirstResult(k) ==
    \E s \in Batch(loops[k].srcs, loops[k].i) : checks[k][s].pc = "done"

(* A gather that never returns. *)
GatherReturnsNever(k) == FALSE

(* asyncio.gather with return_exceptions=True, line 131, returns when     *)
(* every task of the batch is done; no task raises, since every exception  *)
(* of a check is caught at line 180 or 191.                                *)
GatherReturns(k) ==
    \A s \in Batch(loops[k].srcs, loops[k].i) : checks[k][s].pc = "done"

(* The loop of line 102 going on when the batch ends where the list ends. *)
MoreBatchesInclusive(k) == loops[k].i + batch_size <= Len(loops[k].srcs)

(* Lines 102 and 107: range(0, len(sources), batch_size) has a next index, *)
(* which is when i + batch_size < len(sources).                            *)
MoreBatches(k) == loops[k].i + batch_size < Len(loops[k].srcs)

(* gather of line 131 returns: every task of the batch is done.  Either    *)
(* asyncio.sleep(1) before the next batch, or the cycle is over: the       *)
(* Session is closed and the loop sleeps SCHEDULER_INTERVAL.               *)
batch_done(k) ==
    /\ loops[k].pc = "gather"
    /\ ~loops[k].cancel
    /\ GatherReturns(k)
    /\ checks' = [checks EXCEPT ![k] = [s \in Stored |-> IdleCheck]]
    /\ IF MoreBatches(k)
       THEN /\ loops' = [loops EXCEPT ![k].pc = "pace",
                                      ![k].outcomes = BatchOutcomes(k)]
            /\ ev' = [type |-> "batch_done", task |-> k, last |-> FALSE, sleep |-> BATCH_PAUSE]
            /\ UNCHANGED sess
       ELSE /\ loops' = [loops EXCEPT ![k] = [IdleLoop EXCEPT !.pc = "sleep"]]
            /\ sess' = [sess EXCEPT ![k] = EmptySession]
            /\ ev' = [type |-> "batch_done", task |-> k, last |-> TRUE,
                      sleep |-> SCHEDULER_INTERVAL,
                      loaded |-> loops[k].srcs, batches |-> loops[k].batches,
                      outcomes |-> BatchOutcomes(k), paces |-> loops[k].paces]
    /\ UNCHANGED <<is_running, task, stops>>
    /\ Unchanged_data

(* The sources of the cycle of loop task k whose check has not committed. *)
CycleUnfinished(k) ==
    LET l == loops[k]
        finished ==
            IF l.pc = "pace"
            THEN {l.srcs[n] : n \in 1..Min(l.i + batch_size, Len(l.srcs))}
            ELSE {l.srcs[n] : n \in 1..Min(l.i, Len(l.srcs))}
                 \cup {s \in Batch(l.srcs, l.i) : checks[k][s].pc = "done"}
    IN  {l.srcs[n] : n \in 1..Len(l.srcs)} \ finished

(* A loop task that ends at its cancellation without cancelling and       *)
(* awaiting the check tasks of its batch, which go on running.             *)
loop_cancelled_orphaning(k) ==
    /\ loops[k].cancel
    /\ loops[k].pc \in {"new", "sleep", "pace", "gather"}
    /\ loops' = [loops EXCEPT ![k] = [IdleLoop EXCEPT !.pc = "done"]]
    /\ checks' = [checks EXCEPT ![k] = [s \in Stored |->
          [checks[k][s] EXCEPT !.cancel = FALSE]]]
    /\ ev' = [type |-> "loop_cancelled", task |-> k, unfinished |-> CycleUnfinished(k)]
    /\ UNCHANGED <<is_running, task, stops, sess>>
    /\ Unchanged_data

(* CancelledError reaches the loop task at its await: at a sleep, before   *)
(* its first run, or at gather once every batch task is done.  It leaves   *)
(* the with Session() block, which closes the session and drops what is    *)
(* pending, and the loop ends (line 76-78).                                *)
loop_cancelled(k) ==
    /\ loops[k].cancel
    /\ \/ loops[k].pc \in {"new", "sleep", "pace"}
       \/ /\ loops[k].pc = "gather"
          /\ \A s \in Batch(loops[k].srcs, loops[k].i) :
                checks[k][s].pc \in {"done", "cancelled"}
    /\ loops' = [loops EXCEPT ![k] = [IdleLoop EXCEPT !.pc = "done"]]
    /\ checks' = [checks EXCEPT ![k] = [s \in Stored |-> IdleCheck]]
    /\ sess' = [sess EXCEPT ![k] = EmptySession]
    /\ ev' = [type |-> "loop_cancelled", task |-> k, unfinished |-> CycleUnfinished(k)]
    /\ UNCHANGED <<is_running, task, stops>>
    /\ Unchanged_data

(* force_check_source(source_id), lines 293-302: its own Session, the      *)
(* source is looked up and checked in the caller's task.  One call is in   *)
(* flight at a time.                                                       *)
force_check_source(source_id) ==
    /\ \A s \in Stored : checks[ForceOwner][s].pc = "idle"
    /\ IF source_id \notin Stored
       THEN /\ ev' = [type |-> "force_done", source_id |-> source_id, result |-> FALSE]
            /\ UNCHANGED <<sess, checks, nchecks>>
       ELSE BeginCheck(ForceOwner, source_id)
    /\ UNCHANGED <<sources, subscriptions, streak>>
    /\ Unchanged_service

(* ------------------------------ environment ---------------------------- *)
(* The clock advances. *)
utcnow_advances ==
    /\ now < MaxTime
    /\ now' = now + 1
    /\ ev' = NoEv
    /\ UNCHANGED <<cfg, sources, subscriptions, is_running, task, loops, stops,
                   sess, checks, streak, nchecks, filt>>

(* An administrator sets or clears the activation flag of a source in a    *)
(* session of its own.                                                     *)
set_source_active(s, b) ==
    /\ sources[s].is_active # b
    /\ sources' = [sources EXCEPT ![s].is_active = b]
    /\ checks' = [p \in Owners |-> [x \in Stored |->
          IF x = s /\ InFlight(checks[p][x])
          THEN [checks[p][x] EXCEPT !.solo = FALSE] ELSE checks[p][x]]]
    /\ ev' = [type |-> "set_active", src |-> s, value |-> b]
    /\ UNCHANGED <<cfg, now, subscriptions, is_running, task, loops, stops, sess,
                   streak, nchecks, filt>>

(* The steps of a check, of whichever owner. *)
CheckStep(responses, query_failures) ==
    \E o \in Owners, s \in Stored :
       \/ \E resp \in responses : scrape_attempt_failed(o, s, resp)
       \/ backoff_done(o, s)
       \/ \E resp \in responses, qf \in query_failures : scrape_returned(o, s, resp, qf)
       \/ send_message_ok(o, s)
       \/ send_pause_done(o, s)
       \/ send_message_failed(o, s)

Next ==
    \/ start
    \/ \E k \in Tasks, lf \in BOOLEAN : run_scheduler(k, lf)
    \/ \E k \in Tasks : batch_done(k)
    \/ \E k \in Tasks, s \in Stored : check_single_source(k, s)
    \/ \E id \in Stored \cup {Cardinality(Stored) + 1} : force_check_source(id)
    \/ CheckStep(Responses(now), BOOLEAN)
    \/ utcnow_advances
    \/ \E s \in Stored, b \in BOOLEAN : set_source_active(s, b)

Spec == Init /\ [][Next]_vars

(* The life cycle of the service: start() and stop() called in any order,  *)
(* by main() or by any other coroutine, while the loop and its checks run. *)
NextLife ==
    \/ start
    \/ stop
    \/ \E k \in Tasks : stop_returned(k)
    \/ \E k \in Tasks, lf \in BOOLEAN : run_scheduler(k, lf)
    \/ \E k \in Tasks : batch_done(k)
    \/ \E k \in Tasks : loop_cancelled(k)
    \/ \E k \in Tasks, s \in Stored : check_single_source(k, s)
    \/ \E k \in Tasks, s \in Stored : check_cancelled(k, s)
    \/ CheckStep(Responses(now), BOOLEAN)

SpecLife == Init /\ [][NextLife]_vars

(* ------------------------- _filter_new_items --------------------------- *)
(* One call of _filter_new_items on any list of items, whose timestamps    *)
(* take every form, and any cutoff.                                        *)
FilterTimes == 0..MaxTime
FilterDates ==
    {Published(f, 0) : f \in PubForms \ TimedForms}
    \cup {Published(f, x) : f \in TimedForms, x \in FilterTimes}
FilterInputs ==
    UNION {{[k \in 1..n |-> FeedItem(k, d[k])] : d \in [1..n -> FilterDates]} :
              n \in 0..MaxFilterLen}

InitFilter ==
    /\ cfg = [MAX_RETRIES |-> 0, MAX_ITEMS_PER_UPDATE |-> MaxFeedLen]
    /\ now = 1
    /\ sources = [s \in Sources |-> NullRow]
    /\ subscriptions = <<>>
    /\ is_running = FALSE
    /\ task = 0
    /\ loops = [k \in Tasks |-> IdleLoop]
    /\ stops = {}
    /\ sess = [o \in Owners |-> EmptySession]
    /\ checks = [o \in Owners |-> [s \in Stored |-> IdleCheck]]
    /\ streak = [s \in Stored |-> 0]
    /\ nchecks = 0
    /\ ev = NoEv
    /\ \E items \in FilterInputs, cutoff_time \in FilterTimes :
          filt = [items |-> items, cutoff |-> cutoff_time, result |-> <<>>, done |-> FALSE]

call_filter_new_items ==
    /\ ~filt.done
    /\ filt' = [filt EXCEPT !.result = filter_new_items(filt.items, filt.cutoff),
                            !.done = TRUE]
    /\ UNCHANGED <<cfg, now, sources, subscriptions, is_running, task, loops, stops,
                   sess, checks, streak, nchecks, ev>>

NextFilter == call_filter_new_items

SpecFilter == InitFilter /\ [][NextFilter]_vars

(* ------------------- _send_updates_to_subscribers ---------------------- *)
(* The distribution of new items, reached from a check and from            *)
(* send_updates(bot, source, items), which hands any list of items to      *)
(* _send_updates_to_subscribers.  The source has MaxSendUsers subscription *)
(* rows with any flags.                                                    *)
SendLists == {[k \in 1..n |-> FeedItem(k, Published("empty", 0))] : n \in 0..MaxSendItems}
SendResponses == {Document(l) : l \in SendLists}
SendSubscriptions ==
    {[k \in 1..MaxSendUsers |->
        [user_id |-> k, source_id |-> 1, is_active |-> a[k],
         notification_enabled |-> e[k], last_notified |-> NoTime]] :
        a \in [1..MaxSendUsers -> BOOLEAN], e \in [1..MaxSendUsers -> BOOLEAN]}

InitSend ==
    /\ cfg \in [MAX_RETRIES : {0}, MAX_ITEMS_PER_UPDATE : 1..MaxItemsCfg]
    /\ now = 1
    /\ sources \in [Sources -> InitRows({"rss"})]
    /\ subscriptions \in SendSubscriptions
    /\ is_running = FALSE
    /\ task = 0
    /\ loops = [k \in Tasks |-> IdleLoop]
    /\ stops = {}
    /\ sess = [o \in Owners |-> EmptySession]
    /\ checks = [o \in Owners |-> [s \in Stored |-> IdleCheck]]
    /\ streak = [s \in Stored |-> sources[s].error_count]
    /\ nchecks = MaxChecks
    /\ ev = NoEv
    /\ filt = NoFilt

(* send_updates(bot, source, items), lines 347-358, up to the first        *)
(* send_message: a Session of its own, the subscription query of lines     *)
(* 243-251 and the first item of items[:MAX_ITEMS_PER_UPDATE].             *)
send_updates(s, items) ==
    LET subs == query_subscriptions(s)
        c == [IdleCheck EXCEPT !.pc = "send", !.new_items = items, !.subs = subs,
                               !.i = 1, !.j = 1, !.started = now, !.pre = sources[s],
                               !.eligible = Eligible(s)]
    IN  /\ \A x \in Stored : checks[SendOwner][x].pc = "idle"
        /\ nchecks > 0
        /\ nchecks' = nchecks - 1
        /\ IF subs = <<>> \/ ItemsToSend(c) = <<>>
           THEN SendReturned(SendOwner, s, items, subs, <<>>)
           ELSE /\ checks' = [checks EXCEPT ![SendOwner][s] = c]
                /\ ev' = [type |-> "send", owner |-> SendOwner, src |-> s,
                          item |-> ItemsToSend(c)[1],
                          user |-> subscriptions[subs[1]].user_id,
                          text |-> process_content(ItemsToSend(c)[1]),
                          paused |-> FALSE]
                /\ UNCHANGED <<sources, subscriptions, sess, streak>>
        /\ Unchanged_service

(* callback_unsubscribe (bot/handlers.py, lines 417-433): the user of      *)
(* subscription k presses the unsubscribe button; the handler clears       *)
(* is_active in a Session of its own and commits.                          *)
callback_unsubscribe(k) ==
    /\ subscriptions[k].is_active
    /\ subscriptions' = [subscriptions EXCEPT ![k].is_active = FALSE]
    /\ ev' = [type |-> "unsubscribe", user |-> subscriptions[k].user_id,
              src |-> subscriptions[k].source_id]
    /\ UNCHANGED <<cfg, now, sources, is_running, task, loops, stops, sess, checks,
                   streak, nchecks, filt>>

NextSend ==
    \/ \E s \in Stored, items \in SendLists : send_updates(s, items)
    \/ \E id \in Stored : force_check_source(id)
    \/ \E o \in Owners, s \in Stored, resp \in SendResponses : scrape_returned(o, s, resp, FALSE)
    \/ \E o \in Owners, s \in Stored : send_message_ok(o, s)
    \/ \E o \in Owners, s \in Stored : send_pause_done(o, s)
    \/ \E o \in Owners, s \in Stored : send_message_failed(o, s)
    \/ \E k \in DOMAIN subscriptions : callback_unsubscribe(k)

SpecSend == InitSend /\ [][NextSend]_vars

(* ----------------------- _process_source_batch ------------------------- *)
(* A service with NumBatchSources sources, all active when it is           *)
(* constructed, whose checks run concurrently on the Session of the tick:  *)
(* each fetch fails or returns nothing or one new item, the subscription   *)
(* query may fail, and stop() may be called at any time.                   *)
BatchResponses ==
    {Failure, Document(<<>>), Document(<<FeedItem(1, Published("empty", 0))>>)}

InitBatch ==
    /\ cfg = [MAX_RETRIES |-> 0, MAX_ITEMS_PER_UPDATE |-> MaxFeedLen]
    /\ now = 1
    /\ sources \in [1..NumBatchSources -> InitRows({"rss"})]
    /\ subscriptions = InitSubscriptions
    /\ is_running = FALSE
    /\ task = 0
    /\ loops = [k \in Tasks |-> IdleLoop]
    /\ stops = {}
    /\ sess = [o \in Owners |-> EmptySession]
    /\ checks = [o \in Owners |-> [s \in Stored |-> IdleCheck]]
    /\ streak = [s \in Stored |-> sources[s].error_count]
    /\ nchecks = NumBatchSources
    /\ ev = NoEv
    /\ filt = NoFilt

NextBatch ==
    \/ start
    \/ stop
    \/ \E k \in Tasks : stop_returned(k)
    \/ \E k \in Tasks : run_scheduler(k, FALSE)
    \/ \E k \in Tasks : batch_done(k)
    \/ \E k \in Tasks : loop_cancelled(k)
    \/ \E k \in Tasks, s \in Stored : check_single_source(k, s)
    \/ \E k \in Tasks, s \in Stored : check_cancelled(k, s)
    \/ \E k \in Tasks, s \in Stored : scrape_attempt_failed(k, s, Failure)
    \/ \E k \in Tasks, s \in Stored, resp \in BatchResponses, qf \in BOOLEAN :
          scrape_returned(k, s, resp, qf)
    \/ \E k \in Tasks, s \in Stored : send_message_ok(k, s)
    \/ \E k \in Tasks, s \in Stored : send_pause_done(k, s)
    \/ \E k \in Tasks, s \in Stored : send_message_failed(k, s)

SpecBatch == InitBatch /\ [][NextBatch]_vars

(* ------------------------- _check_all_sources -------------------------- *)
(* One tick of a started service over a table of up to MaxTickSources      *)
(* active sources, more than one batch holds; every fetch returns an       *)
(* empty document.                                                         *)
TickSizes == {1} \cup ((MaxTickSources - 2)..MaxTickSources)

InitTick ==
    /\ cfg = [MAX_RETRIES |-> 0, MAX_ITEMS_PER_UPDATE |-> MaxFeedLen]
    /\ now = 1
    /\ \E n \in TickSizes :
          sources = [s \in 1..n |->
              [type |-> "rss", is_active |-> TRUE, error_count |-> 0,
               check_count |-> 0, last_checked |-> NoTime, last_updated |-> NoTime]]
    /\ subscriptions = <<>>
    /\ is_running = TRUE
    /\ task = 1
    /\ loops = [k \in Tasks |-> IF k = 1 THEN [IdleLoop EXCEPT !.pc = "new"] ELSE IdleLoop]
    /\ stops = {}
    /\ sess = [o \in Owners |-> EmptySession]
    /\ checks = [o \in Owners |-> [s \in Stored |-> IdleCheck]]
    /\ streak = [s \in Stored |-> 0]
    /\ nchecks = Cardinality(Stored)
    /\ ev = NoEv
    /\ filt = NoFilt

(* The tasks of a batch are created in the order of the batch (lines       *)
(* 124-127) and the event loop runs them first in the order of their       *)
(* creation: the check of s begins after the checks of the sources before  *)
(* it in the batch.                                                        *)
StartsNext(k, s) ==
    \A x \in Batch(loops[k].srcs, loops[k].i) : x < s => checks[k][x].pc # "new"

NextTick ==
    \/ \E k \in Tasks : run_scheduler(k, FALSE)
    \/ \E k \in Tasks : batch_done(k)
    \/ \E k \in Tasks, s \in Stored : StartsNext(k, s) /\ check_single_source(k, s)
    \/ \E k \in Tasks, s \in Stored : scrape_returned(k, s, Document(<<>>), FALSE)

SpecTick == InitTick /\ [][NextTick]_vars

(* ------------------------- get_scheduler_stats ------------------------- *)
(* The dictionary with the error sources counted among the active sources  *)
(* only.                                                                   *)
SchedulerStatsActiveErrors ==
    [is_running |-> is_running,
     check_interval |-> SCHEDULER_INTERVAL,
     total_sources |-> Cardinality(Stored),
     active_sources |-> Cardinality({s \in Stored : sources[s].is_active}),
     error_sources |->
         Cardinality({s \in Stored : sources[s].is_active /\ sources[s].error_count > 0}),
     total_subscriptions |-> Len(subscriptions),
     active_subscriptions |->
         Cardinality({k \in DOMAIN subscriptions : subscriptions[k].is_active})]

(* Lines 316-331: the five count() queries and the dictionary returned. *)
SchedulerStats ==
    [is_running |-> is_running,
     check_interval |-> SCHEDULER_INTERVAL,
     total_sources |-> Cardinality(Stored),
     active_sources |-> Cardinality({s \in Stored : sources[s].is_active}),
     error_sources |-> Cardinality({s \in Stored : sources[s].error_count > 0}),
     total_subscriptions |-> Len(subscriptions),
     active_subscriptions |->
         Cardinality({k \in DOMAIN subscriptions : subscriptions[k].is_active})]

(* get_scheduler_stats(), lines 309-331: it has no await and writes        *)
(* nothing.  before is the state the call found.                           *)
get_scheduler_stats ==
    /\ ev' = [type |-> "stats", stats |-> SchedulerStats,
              before |-> [sources |-> sources, subscriptions |-> subscriptions,
                          is_running |-> is_running, task |-> task, loops |-> loops]]
    /\ UNCHANGED <<cfg, now, sources, subscriptions, is_running, task, loops, stops,
                   sess, checks, streak, nchecks, filt>>

(* The life cycle of the service with get_scheduler_stats called at any    *)
(* time, and users who unsubscribe.                                        *)
NextStats ==
    \/ NextLife
    \/ get_scheduler_stats
    \/ \E k \in DOMAIN subscriptions : callback_unsubscribe(k)

SpecStats == Init /\ [][NextStats]_vars

(* ---------------------------- subscriptions ---------------------------- *)
(* Table subscriptions under UniqueConstraint('user_id', 'source_id'):     *)
(* rows are stored by callback_subscribe and by any other session that     *)
(* adds a Subscription and commits.                                        *)
SubRowsOf(u, s) ==
    {k \in DOMAIN subscriptions :
        subscriptions[k].user_id = u /\ subscriptions[k].source_id = s}

(* A table without the constraint: no INSERT is rejected. *)
UniqueViolationUnchecked(u, s) == FALSE

(* unique_user_source_subscription (models/database.py, lines 118-120):    *)
(* the INSERT of a row for a pair that is stored raises IntegrityError.    *)
UniqueViolation(u, s) == SubRowsOf(u, s) # {}

NewSubscription(u, s) ==
    [user_id |-> u, source_id |-> s, is_active |-> TRUE,
     notification_enabled |-> TRUE, last_notified |-> NoTime]

Unchanged_but_subscriptions ==
    UNCHANGED <<cfg, now, sources, is_running, task, loops, stops, sess, checks,
                streak, nchecks, filt>>

(* session.add(Subscription(user_id=u, source_id=s)); session.commit()     *)
(* (tests/test_database.py, lines 169-179): the commit raises when the     *)
(* constraint is violated, and the row is not stored.                      *)
add_subscription(u, s) ==
    /\ subscriptions' = IF UniqueViolation(u, s) THEN subscriptions
                        ELSE Append(subscriptions, NewSubscription(u, s))
    /\ ev' = [type |-> "insert", user |-> u, src |-> s,
              rejected |-> UniqueViolation(u, s), before |-> subscriptions]
    /\ Unchanged_but_subscriptions

(* callback_subscribe (bot/handlers.py, lines 369-412): no await lies      *)
(* between its queries and its commit.                                     *)
callback_subscribe(u, source_id) ==
    LET existing == SubRowsOf(u, source_id)
        k == CHOOSE x \in existing : \A y \in existing : x <= y
    IN  /\ IF source_id \notin Stored
           THEN /\ ev' = [type |-> "subscribe", user |-> u, src |-> source_id,
                          answer |-> "not_found", before |-> subscriptions]
                /\ UNCHANGED subscriptions
           ELSE IF existing # {} /\ subscriptions[k].is_active
           THEN /\ ev' = [type |-> "subscribe", user |-> u, src |-> source_id,
                          answer |-> "already", before |-> subscriptions]
                /\ UNCHANGED subscriptions
           ELSE IF existing # {}
           THEN /\ subscriptions' = [subscriptions EXCEPT ![k].is_active = TRUE,
                                                        ![k].notification_enabled = TRUE]
                /\ ev' = [type |-> "subscribe", user |-> u, src |-> source_id,
                          answer |-> "subscribed", before |-> subscriptions]
           ELSE /\ subscriptions' = IF UniqueViolation(u, source_id) THEN subscriptions
                                    ELSE Append(subscriptions, NewSubscription(u, source_id))
                /\ ev' = [type |-> "subscribe", user |-> u, src |-> source_id,
                          answer |-> IF UniqueViolation(u, source_id)
                                     THEN "error" ELSE "subscribed",
                          before |-> subscriptions]
        /\ Unchanged_but_subscriptions

InitSubscribe ==
    /\ cfg = [MAX_RETRIES |-> 0, MAX_ITEMS_PER_UPDATE |-> MaxFeedLen]
    /\ now = 1
    /\ sources \in [Sources -> InitRows({"rss"})]
    /\ subscriptions = <<>>
    /\ is_running = FALSE
    /\ task = 0
    /\ loops = [k \in Tasks |-> IdleLoop]
    /\ stops = {}
    /\ sess = [o \in Owners |-> EmptySession]
    /\ checks = [o \in Owners |-> [s \in Stored |-> IdleCheck]]
    /\ streak = [s \in Stored |-> sources[s].error_count]
    /\ nchecks = 0
    /\ ev = NoEv
    /\ filt = NoFilt

NextSubscribe ==
    \/ \E u \in 1..MaxSubUsers, s \in Stored : add_subscription(u, s)
    \/ \E u \in 1..MaxSubUsers, id \in Stored \cup {Cardinality(Stored) + 1} :
          callback_subscribe(u, id)
    \/ \E k \in DOMAIN subscriptions : callback_unsubscribe(k)

SpecSubscribe == InitSubscribe /\ [][NextSubscribe]_vars

(* -------------------------- detect_source_type ------------------------- *)
(* A URL string as urlparse reads it: its scheme, what its network         *)
(* location contains ("none" for an empty netloc, as in "", "not-a-url"    *)
(* and "javascript:alert(1)"), and whether the string matches the feed     *)
(* pattern of line 82.                                                     *)
UrlSchemes == {"", "http", "https", "ftp", "javascript"}
UrlDomains == {"none", "twitter", "facebook", "instagram", "youtube", "reddit", "other"}
Urls == [scheme : UrlSchemes, domain : UrlDomains, feed_pattern : BOOLEAN]

(* What _detect_rss_by_content does for the URL: it raises (the request    *)
(* fails or the URL cannot be requested) or it returns a type.             *)
ContentOutcomes == {"raises", "rss", "website"}

Detected(source_type) == [raised |-> FALSE, source_type |-> source_type]
DetectionFailed == [raised |-> TRUE, source_type |-> "none"]

(* detect_source_type(url), lines 60-95. *)
detect_source_type(url, content) ==
    IF url.domain = "none" THEN DetectionFailed
    ELSE IF url.domain # "other" THEN Detected(url.domain)
    ELSE IF url.feed_pattern THEN Detected("rss")
    ELSE IF content = "raises" THEN Detected("website")
    ELSE Detected(content)

(* One call of detect_source_type. *)
call_detect_source_type(url, content) ==
    /\ ev' = [type |-> "detect", url |-> url, content |-> content,
              result |-> detect_source_type(url, content)]
    /\ UNCHANGED <<cfg, now, sources, subscriptions, is_running, task, loops, stops,
                   sess, checks, streak, nchecks, filt>>

NextDetect == \E url \in Urls, content \in ContentOutcomes : call_detect_source_type(url, content)

SpecDetect == InitSubscribe /\ [][NextDetect]_vars

(* ----------------------------- scrape_source --------------------------- *)
(* Forced checks of a source under any MAX_RETRIES up to                   *)
(* MaxBackoffRetries: every attempt of a fetch fails or returns a feed.    *)
InitRetry ==
    /\ cfg \in [MAX_RETRIES : 0..MaxBackoffRetries, MAX_ITEMS_PER_UPDATE : {MaxFeedLen}]
    /\ now = 1
    /\ sources \in [Sources -> InitRows({"rss"})]
    /\ subscriptions = InitSubscriptions
    /\ is_running = FALSE
    /\ task = 0
    /\ loops = [k \in Tasks |-> IdleLoop]
    /\ stops = {}
    /\ sess = [o \in Owners |-> EmptySession]
    /\ checks = [o \in Owners |-> [s \in Stored |-> IdleCheck]]
    /\ streak = [s \in Stored |-> sources[s].error_count]
    /\ nchecks = MaxChecks
    /\ ev = NoEv
    /\ filt = NoFilt

NextRetry ==
    \/ \E id \in Stored : force_check_source(id)
    \/ \E s \in Stored : scrape_attempt_failed(ForceOwner, s, Failure)
    \/ \E s \in Stored : backoff_done(ForceOwner, s)
    \/ \E s \in Stored, resp \in Responses(now) : scrape_returned(ForceOwner, s, resp, FALSE)
    \/ \E s \in Stored : send_message_ok(ForceOwner, s)
    \/ \E s \in Stored : send_pause_done(ForceOwner, s)
    \/ \E s \in Stored : send_message_failed(ForceOwner, s)

SpecRetry == InitRetry /\ [][NextRetry]_vars

(* --------------------------- kinds of source --------------------------- *)
(* Forced checks of a source of any kind whose request fails or returns a  *)
(* feed.                                                                   *)
InitKinds ==
    /\ cfg = [MAX_RETRIES |-> MaxRetriesCfg, MAX_ITEMS_PER_UPDATE |-> MaxFeedLen]
    /\ now = 1
    /\ sources \in [Sources -> InitRows(SourceTypes)]
    /\ subscriptions = InitSubscriptions
    /\ is_running = FALSE
    /\ task = 0
    /\ loops = [k \in Tasks |-> IdleLoop]
    /\ stops = {}
    /\ sess = [o \in Owners |-> EmptySession]
    /\ checks = [o \in Owners |-> [s \in Stored |-> IdleCheck]]
    /\ streak = [s \in Stored |-> sources[s].error_count]
    /\ nchecks = MaxChecks
    /\ ev = NoEv
    /\ filt = NoFilt

NextKinds ==
    \/ \E id \in Stored : force_check_source(id)
    \/ \E s \in Stored : scrape_attempt_failed(ForceOwner, s, Failure)
    \/ \E s \in Stored : backoff_done(ForceOwner, s)
    \/ \E s \in Stored, resp \in Responses(now) : scrape_returned(ForceOwner, s, resp, FALSE)
    \/ \E s \in Stored : send_message_ok(ForceOwner, s)
    \/ \E s \in Stored : send_pause_done(ForceOwner, s)
    \/ \E s \in Stored : send_message_failed(ForceOwner, s)

SpecKinds == InitKinds /\ [][NextKinds]_vars

(* ------------------------------ termination ---------------------------- *)
(* One tick of a started service over NumBatchSources active sources, the  *)
(* first of them with MaxSendUsers subscribers: a request fails or returns *)
(* up to MaxSendItems items, a delivery succeeds or fails.  The event loop *)
(* runs every task that is ready, and every awaited call returns or fails: *)
(* the steps of each task are weakly fair.                                 *)
TermSubscriptions ==
    [k \in 1..MaxSendUsers |->
        [user_id |-> k, source_id |-> 1, is_active |-> TRUE,
         notification_enabled |-> TRUE, last_notified |-> NoTime]]

InitTerm ==
    /\ cfg \in [MAX_RETRIES : 0..MaxRetriesCfg, MAX_ITEMS_PER_UPDATE : 1..MaxItemsCfg]
    /\ now = 1
    /\ sources = [s \in 1..NumBatchSources |->
          [type |-> "rss", is_active |-> TRUE, error_count |-> 0,
           check_count |-> 0, last_checked |-> NoTime, last_updated |-> NoTime]]
    /\ subscriptions = TermSubscriptions
    /\ is_running = TRUE
    /\ task = 1
    /\ loops = [k \in Tasks |-> IF k = 1 THEN [IdleLoop EXCEPT !.pc = "new"] ELSE IdleLoop]
    /\ stops = {}
    /\ sess = [o \in Owners |-> EmptySession]
    /\ checks = [o \in Owners |-> [s \in Stored |-> IdleCheck]]
    /\ streak = [s \in Stored |-> 0]
    /\ nchecks = NumBatchSources
    /\ ev = NoEv
    /\ filt = NoFilt

(* The steps of loop task k; a cycle starts while checks are left to run. *)
LoopStep(k) ==
    \/ nchecks > 0 /\ run_scheduler(k, FALSE)
    \/ batch_done(k)

(* The steps of the check of source s in a batch of loop task k. *)
TaskStep(k, s) ==
    \/ check_single_source(k, s)
    \/ scrape_attempt_failed(k, s, Failure)
    \/ backoff_done(k, s)
    \/ \E resp \in SendResponses : scrape_returned(k, s, resp, FALSE)
    \/ send_message_ok(k, s)
    \/ send_pause_done(k, s)
    \/ send_message_failed(k, s)

NextTerm ==
    \/ \E k \in Tasks : LoopStep(k)
    \/ \E k \in Tasks, s \in Stored : TaskStep(k, s)

FairTerm ==
    /\ \A k \in Tasks : WF_vars(LoopStep(k))
    /\ \A k \in Tasks, s \in 1..NumBatchSources : WF_vars(TaskStep(k, s))

SpecTerm == InitTerm /\ [][NextTerm]_vars /\ FairTerm

(* ------------------------------ properties ----------------------------- *)
(* ev is what the last step did.  A finished check is the event            *)
(* check_done: pre and post are the committed row of the source when the   *)
(* check began and after its commit, and solo says that no other session   *)
(* wrote the row in between, so that post differs from pre by what this    *)
(* check did.                                                              *)
CheckDone == ev.type = "check_done"
TickFetch == ev.type = "fetch" /\ ev.owner \in Tasks

(* C1: under every interleaving of start() and stop() calls at most one    *)
(* scheduler loop task is alive at any time.                               *)
C1_AtMostOneLoopTask == Cardinality(AliveLoopTasks) <= 1

(* C2, as stated: whenever a tick invokes a fetch for a source, the        *)
(* activation flag of the source is set, whatever forced checks and        *)
(* external changes of the flag are interleaved.                           *)
C2_TickFetchesOnlyActive == TickFetch => sources[ev.src].is_active

(* C2, amended: whenever a tick invokes a fetch for a source, the          *)
(* activation flag of the source was set when that tick loaded the active  *)
(* sources.                                                                *)
C2_TickFetchesOnlyLoadedActive == TickFetch => ev.src \in loops[ev.owner].at_load

C2_Witness == TickFetch /\ ~sources[ev.src].is_active

C4_AllAttemptsFail ==
    (CheckDone /\ ~ev.fetch_ok) =>
        /\ ev.attempts = cfg.MAX_RETRIES + 1
        /\ ev.result = "scraper_error"
        /\ ev.solo => ev.post.error_count = ev.pre.error_count + 1

C4_Witness ==
    /\ CheckDone /\ ~ev.fetch_ok /\ ev.solo
    /\ cfg.MAX_RETRIES > 0
    /\ ev.attempts = cfg.MAX_RETRIES + 1
    /\ ev.post.error_count = ev.pre.error_count + 1

(* C5: after any check that ends in failure, a ScraperError or any other   *)
(* failure, a source whose error count is at or above                      *)
(* DEACTIVATION_THRESHOLD has its activation flag cleared.                 *)
C5_FailureAtThresholdDeactivates ==
    (CheckDone /\ ev.result # "ok" /\ ev.post.error_count >= DEACTIVATION_THRESHOLD) =>
        ~ev.post.is_active

(* C6: a check deactivates a source only when the latest                   *)
(* DEACTIVATION_THRESHOLD checks of the source all failed, this one        *)
(* included.                                                               *)
C6_DeactivatedOnlyAfterStreak ==
    (CheckDone /\ ev.deactivated) => streak[ev.src] >= DEACTIVATION_THRESHOLD

(* C7: after every successful check of a source, new items or not, the     *)
(* error count of the source is zero.                                      *)
C7_SuccessResetsErrorCount ==
    (CheckDone /\ ev.result = "ok") => ev.post.error_count = 0

(* C8: every check whose fetch succeeds increments the check count of the  *)
(* source by exactly 1 and records the time of the check, whether the      *)
(* fetch returned no items, only old items or new items.                   *)
C8_SuccessCountsCheck ==
    (CheckDone /\ ev.fetch_ok /\ ev.solo) =>
        /\ ev.post.check_count = ev.pre.check_count + 1
        /\ ev.post.last_checked = At(ev.started)

C8_Witness ==
    /\ CheckDone /\ ev.fetch_ok /\ ev.solo
    /\ ev.fetch.items # <<>>
    /\ ev.new_items = <<>>
    /\ ev.started < now
    /\ ev.post.check_count = ev.pre.check_count + 1

(* C9, as stated: a check whose fetch succeeds never increases the error   *)
(* count of the source and never clears its activation flag, whatever      *)
(* happens afterwards in that check.                                       *)
C9_FetchSuccessNeverCounts ==
    (CheckDone /\ ev.fetch_ok /\ ev.solo) =>
        /\ ev.post.error_count <= ev.pre.error_count
        /\ ev.pre.is_active => ev.post.is_active

(* C9, amended: a check whose fetch succeeds never clears the activation   *)
(* flag of the source; it leaves the error count as it was or at zero when *)
(* nothing fails afterwards, and increases it by exactly 1 when an         *)
(* unexpected failure follows the fetch.                                   *)
C9_FetchSuccessCountsOnlyUnexpected ==
    (CheckDone /\ ev.fetch_ok /\ ev.solo) =>
        /\ ev.pre.is_active => ev.post.is_active
        /\ ev.result = "ok" => ev.post.error_count \in {0, ev.pre.error_count}
        /\ ev.result # "ok" => /\ ev.result = "unexpected"
                               /\ ev.post.error_count = ev.pre.error_count + 1

C9_Witness ==
    /\ CheckDone /\ ev.fetch_ok /\ ev.solo
    /\ ev.result = "unexpected"
    /\ ev.pre.error_count = DEACTIVATION_THRESHOLD - 1
    /\ ev.post.error_count = DEACTIVATION_THRESHOLD
    /\ ev.post.is_active

(* C10: for every list of items and every cutoff, _filter_new_items keeps  *)
(* every item without a publication timestamp and every item whose         *)
(* timestamp cannot be parsed.                                             *)
Unparsable(pub) == pub.form \in {"garbage", "rfc822", "dateonly"}
Undated(item) == item.published_at.form = "empty" \/ Unparsable(item.published_at)
Kept(item) == \E j \in 1..Len(filt.result) : filt.result[j] = item

C10_UndatedItemsAreNew ==
    filt.done => \A i \in 1..Len(filt.items) : Undated(filt.items[i]) => Kept(filt.items[i])

C10_Witness ==
    /\ filt.done
    /\ Len(filt.items) = MaxFilterLen
    /\ Unparsable(filt.items[1].published_at)
    /\ ~Kept(filt.items[2])
    /\ Kept(filt.items[1])

(* C11: for every item whose publication timestamp is in a supported form  *)
(* (ISO with or without a zone designator, or the space-delimited form),   *)
(* _filter_new_items keeps the item if and only if its timestamp is        *)
(* strictly after the cutoff.                                              *)
Supported(pub) == pub.form \in {"iso", "isoZ", "isoOffset", "space"}

C11_SupportedKeptIffAfterCutoff ==
    filt.done =>
        \A i \in 1..Len(filt.items) :
            Supported(filt.items[i].published_at) =>
                (Kept(filt.items[i]) <=> filt.items[i].published_at.t > filt.cutoff)

(* A distribution is over when the check that called it has committed, or  *)
(* when send_updates has returned: new_items is the list handed to         *)
(* _send_updates_to_subscribers, subs the subscriptions it resolved, log   *)
(* its delivery attempts in the order they were made.                      *)
DistributionDone ==
    \/ CheckDone /\ ev.result = "ok" /\ ev.new_items # <<>>
    \/ ev.type = "send_updates_done"
Delivered(log) == {log[n].item : n \in DOMAIN log}
FirstItems(items) == {items[i] : i \in 1..Min(cfg.MAX_ITEMS_PER_UPDATE, Len(items))}
Pos(items, x) == CHOOSE i \in DOMAIN items : items[i] = x

(* C12: one distribution delivers at most MAX_ITEMS_PER_UPDATE distinct    *)
(* items, and the items it delivers are the first items of the new-item    *)
(* list, delivered in the order of that list.                              *)
C12_DeliversFirstMaxItems ==
    DistributionDone =>
        /\ Cardinality(Delivered(ev.log)) <= cfg.MAX_ITEMS_PER_UPDATE
        /\ Delivered(ev.log) \subseteq FirstItems(ev.new_items)
        /\ \A m, n \in DOMAIN ev.log :
              m < n => Pos(ev.new_items, ev.log[m].item) <= Pos(ev.new_items, ev.log[n].item)
C12_Witness ==
    /\ DistributionDone
    /\ Len(ev.new_items) > cfg.MAX_ITEMS_PER_UPDATE
    /\ Cardinality(Delivered(ev.log)) = cfg.MAX_ITEMS_PER_UPDATE
    /\ cfg.MAX_ITEMS_PER_UPDATE > 1

(* The delivery attempts of a log for one item and one user. *)
AttemptsOf(log, item, user) ==
    {n \in DOMAIN log : log[n].item = item /\ log[n].user = user}

(* C13: in every distribution each pair of an item of the truncated list   *)
(* and a resolved subscriber gets exactly one delivery attempt, whichever  *)
(* other attempts of the distribution failed.                              *)
C13_EachPairAttemptedOnce ==
    DistributionDone =>
        \A i \in 1..Min(cfg.MAX_ITEMS_PER_UPDATE, Len(ev.new_items)), j \in DOMAIN ev.subs :
            Cardinality(AttemptsOf(ev.log, ev.new_items[i],
                                   subscriptions[ev.subs[j]].user_id)) = 1
C13_Witness ==
    /\ DistributionDone
    /\ Len(ev.subs) = 2
    /\ Len(ev.log) = 4
    /\ ~ev.log[1].ok
    /\ ev.log[2].ok
    /\ ~ev.log[3].ok

(* The subscription rows of user u for source s. *)
RowsOf(u, s) ==
    {k \in DOMAIN subscriptions :
        subscriptions[k].user_id = u /\ subscriptions[k].source_id = s}

(* C14 as stated: a delivery is attempted only to a subscriber whose       *)
(* subscription to the checked source has both flags set.  The subscriber  *)
(* set is resolved once, before the first delivery, so that a user who     *)
(* unsubscribes while the distribution runs is still sent what is left.    *)
C14_AttemptsOnlyToFlagged ==
    ev.type = "send" =>
        \E k \in RowsOf(ev.user, ev.src) :
            subscriptions[k].is_active /\ subscriptions[k].notification_enabled

(* C14, amended: a delivery is attempted only to subscribers whose         *)
(* subscription to the checked source had both flags set when the          *)
(* Distributor resolved the subscriber set; when no subscription had, the  *)
(* Distributor attempts no delivery and writes nothing.                    *)
C14_AttemptsOnlyToResolved ==
    /\ ev.type = "send" =>
          RowsOf(ev.user, ev.src) \cap checks[ev.owner][ev.src].eligible # {}
    /\ DistributionDone =>
          /\ \A n \in DOMAIN ev.log : RowsOf(ev.log[n].user, ev.src) \cap ev.eligible # {}
          /\ ev.eligible = {} => ev.log = <<>> /\ ev.notified = {}
C14_Witness ==
    /\ ev.type = "send"
    /\ \E k \in DOMAIN subscriptions :
          /\ subscriptions[k].source_id = ev.src
          /\ subscriptions[k].is_active
          /\ ~subscriptions[k].notification_enabled
          /\ k \notin checks[ev.owner][ev.src].eligible

FailedDeliveries(log) == {n \in DOMAIN log : ~log[n].ok}

(* C15: a check in which one or more deliveries failed is a successful     *)
(* check: it does not raise the error count of the source (it resets it),  *)
(* it leaves the activation flag as it was, and it advances the watermark  *)
(* to the time of the check.                                               *)
C15_FailedDeliveryKeepsCheckSuccessful ==
    CheckDone /\ FailedDeliveries(ev.log) # {} =>
        /\ ev.result = "ok"
        /\ ~ev.deactivated
        /\ ev.solo =>
              /\ ev.post.error_count = 0
              /\ ev.post.is_active = ev.pre.is_active
              /\ ev.post.last_updated = At(now)
C15_Witness ==
    /\ CheckDone
    /\ Len(ev.log) >= 2
    /\ FailedDeliveries(ev.log) = DOMAIN ev.log
    /\ ev.solo
    /\ ev.pre.error_count = DEACTIVATION_THRESHOLD - 1
    /\ ev.pre.last_updated = NoTime

(* The last batch of a tick has returned: the tick is over.  outcomes is   *)
(* what the checks of the tick returned.                                   *)
TickDone == ev.type = "batch_done" /\ ev.last
FailedOutcomes(outcomes) == {n \in DOMAIN outcomes : outcomes[n].result # "ok"}
OutcomesOf(outcomes, s) == {n \in DOMAIN outcomes : outcomes[n].src = s}

(* C16: when the check of one source failed (a source error or an          *)
(* unexpected failure), the tick still checks every source it loaded and   *)
(* commits the bookkeeping of each: its check returned, and its row holds  *)
(* the check timestamp and the incremented check counter.                  *)
C16_FailedCheckFailsNoOther ==
    TickDone /\ FailedOutcomes(ev.outcomes) # {} =>
        \A i \in DOMAIN ev.loaded :
            \E n \in OutcomesOf(ev.outcomes, ev.loaded[i]) :
                /\ ev.outcomes[n].result \in {"ok", "scraper_error", "unexpected"}
                /\ sources[ev.loaded[i]].last_checked = At(now)
                /\ sources[ev.loaded[i]].check_count = ev.outcomes[n].pre.check_count + 1
C16_Witness ==
    /\ TickDone
    /\ Len(ev.loaded) = 2
    /\ ev.outcomes[1].result = "scraper_error"
    /\ ev.outcomes[2].result = "ok"
    /\ sources[ev.outcomes[2].src].last_updated = At(now)

(* The committed row holds the check timestamp and the check counter that  *)
(* row pre held.                                                           *)
SameBookkeeping(row, pre) ==
    row.last_checked = pre.last_checked /\ row.check_count = pre.check_count

(* C20: the committed row of a source never holds the check timestamp and  *)
(* counter of a check without the outcome of that check: while a check is  *)
(* in flight, and when it is cancelled, the row holds what it held when    *)
(* the check began (no other session having written it).  The checks of a  *)
(* batch share the Session of the tick, and the commit of one check        *)
(* writes the pending timestamp and counter of every other.                *)
C20_NoPartialBookkeeping ==
    /\ \A k \in Tasks, s \in Stored :
          InFlight(checks[k][s]) /\ checks[k][s].solo =>
              SameBookkeeping(sources[s], checks[k][s].pre)
    /\ ev.type = "check_cancelled" /\ ev.started /\ ev.solo =>
          SameBookkeeping(sources[ev.src], ev.pre)

(* C18: when stop() is called while a check cycle is in flight, the cycle  *)
(* finishes before the loop is retired: when the loop task ends, every     *)
(* source the cycle loaded has been checked and its bookkeeping committed. *)
(* stop() cancels the loop task (line 59), and the cancellation reaches    *)
(* the checks that gather awaits.                                          *)
C18_StopLetsCycleFinish ==
    ev.type = "loop_cancelled" => ev.unfinished = {}

(* The steps in which a check fetches, delivers or writes a record. *)
CheckWork == ev.type \in {"fetch", "attempt_failed", "send", "delivered", "check_done"}

(* C19: when a stop() call that cancelled the scheduling task returns,     *)
(* that task has terminated, and from then on no check that the task       *)
(* issued exists or performs a fetch, a delivery or a record write.  (A    *)
(* task that has terminated stays so: start() creates a new one.)          *)
C19_NoCheckWorkAfterStop ==
    /\ ev.type = "stop_returned" => loops[ev.awaited].pc = "done"
    /\ ev.type = "stop" /\ ~ev.not_running /\ ev.returned => loops[task].pc = "done"
    /\ \A k \in Tasks :
          loops[k].pc = "done" => \A s \in Stored : checks[k][s].pc = "idle"
    /\ CheckWork /\ ev.owner \in Tasks => loops[ev.owner].pc # "done"
C19_Witness ==
    /\ ev.type = "stop_returned"
    /\ nchecks < MaxChecks
    /\ \A s \in Stored : sources[s].check_count = DEACTIVATION_THRESHOLD - 1
    /\ \A k \in Tasks, s \in Stored : checks[k][s].pc = "idle"

RECURSIVE Flatten(_)
Flatten(seqs) == IF seqs = <<>> THEN <<>> ELSE seqs[1] \o Flatten(Tail(seqs))
CeilDiv(n, d) == (n + d - 1) \div d

(* C17: a tick that loads n active sources issues exactly ceil(n/10)       *)
(* batches of at most 10 sources each, the batches are the loaded list cut *)
(* in order, and every loaded source is checked exactly once in the tick:  *)
(* one check of it returned and its check counter went up by one.          *)
C17_BatchesPartitionTick ==
    TickDone =>
        /\ Len(ev.batches) = CeilDiv(Len(ev.loaded), batch_size)
        /\ \A b \in DOMAIN ev.batches :
              Len(ev.batches[b]) >= 1 /\ Len(ev.batches[b]) <= batch_size
        /\ Flatten(ev.batches) = ev.loaded
        /\ \A i, j \in DOMAIN ev.loaded : i # j => ev.loaded[i] # ev.loaded[j]
        /\ \A i \in DOMAIN ev.loaded :
              /\ Cardinality(OutcomesOf(ev.outcomes, ev.loaded[i])) = 1
              /\ \A n \in OutcomesOf(ev.outcomes, ev.loaded[i]) :
                    /\ ev.outcomes[n].result = "ok"
                    /\ sources[ev.loaded[i]].check_count
                          = ev.outcomes[n].pre.check_count + 1
C17_Witness ==
    /\ TickDone
    /\ Len(ev.loaded) = 12
    /\ Len(ev.batches) = 2
    /\ Len(ev.batches[1]) = 10
    /\ Len(ev.batches[2]) = 2

(* The attempts of a log that delivered item to user. *)
SuccessesOf(log, item, user) == {n \in AttemptsOf(log, item, user) : log[n].ok}

(* An item that no later check classifies as new: its timestamp is parsed  *)
(* and is not after watermark w.  (The watermark never goes back.)         *)
NeverNewAgain(item, w) ==
    Supported(item.published_at) /\ item.published_at.form \in {"iso", "space"}
        /\ item.published_at.t <= w

(* C21: every item classified as new is in the end delivered at least once *)
(* to each subscriber that stays subscribed and reachable.  For that, a    *)
(* check may move the watermark past an item it classified as new only     *)
(* once each resolved subscriber has received the item: later checks no    *)
(* longer classify the item as new.  A failed delivery is logged (line     *)
(* 274) and not retried, and the watermark advances all the same.          *)
C21_NoItemLeftBehindWatermark ==
    CheckDone /\ ev.result = "ok" /\ ev.solo /\ ev.post.last_updated # NoTime =>
        \A i \in 1..Min(cfg.MAX_ITEMS_PER_UPDATE, Len(ev.new_items)), j \in DOMAIN ev.subs :
            NeverNewAgain(ev.new_items[i], ev.post.last_updated[1]) =>
                SuccessesOf(ev.log, ev.new_items[i],
                            subscriptions[ev.subs[j]].user_id) # {}

(* C22: new-item detection is idempotent.  The check that follows a        *)
(* successful check reads the watermark that check committed as its        *)
(* cutoff (line 163); when its fetch returns the same items, it classifies *)
(* as new none of the items the first check classified as new and          *)
(* distributed.  An item without a timestamp, or with one that is not      *)
(* parsed or not comparable, is new for every cutoff.                      *)
C22_DistributedItemsNotNewAgain ==
    CheckDone /\ ev.result = "ok" /\ ev.new_items # <<>> /\ ev.solo =>
        \A i \in 1..Min(cfg.MAX_ITEMS_PER_UPDATE, Len(ev.new_items)) :
            ~IsNewItem(ev.new_items[i], ev.post.last_updated[1])

(* C23: force_check_source returns True exactly when the forced check of   *)
(* the source succeeded, and False when the source does not exist or its   *)
(* check failed.  _check_single_source returns None on every path, its     *)
(* failures included, and line 303 returns True after it.                  *)
C23_ForceReturnsCheckSuccess ==
    /\ ev.type = "force_done" => ~ev.result
    /\ CheckDone /\ ev.owner = ForceOwner => (ev.force_returns <=> ev.result = "ok")

StatsReturned == ev.type = "stats"

(* C24 as stated: the running entry of the statistics is true exactly when *)
(* a scheduler loop task is alive.  stop() clears is_running before the    *)
(* task it cancels has ended.                                              *)
C24_RunningIffLoopAlive ==
    StatsReturned => (ev.stats.is_running <=> AliveLoopTasks # {})

(* C24, amended: get_scheduler_stats changes no source, subscription or    *)
(* scheduler state; running is the flag is_running, and when it is true a  *)
(* loop task is alive; the counts are the numbers of stored sources, of    *)
(* active sources, of sources with a non-zero error count, of stored       *)
(* subscriptions and of active subscriptions.                              *)
C24_StatsIsSnapshot ==
    StatsReturned =>
        /\ ev.before = [sources |-> sources, subscriptions |-> subscriptions,
                        is_running |-> is_running, task |-> task, loops |-> loops]
        /\ ev.stats.is_running = is_running
        /\ ev.stats.is_running => AliveLoopTasks # {}
        /\ ev.stats.total_sources = Cardinality(Stored)
        /\ ev.stats.active_sources = Cardinality({s \in Stored : sources[s].is_active})
        /\ ev.stats.error_sources = Cardinality({s \in Stored : sources[s].error_count # 0})
        /\ ev.stats.total_subscriptions = Cardinality(DOMAIN subscriptions)
        /\ ev.stats.active_subscriptions
              = Cardinality({k \in DOMAIN subscriptions : subscriptions[k].is_active})
C24_Witness ==
    /\ StatsReturned
    /\ ev.stats.is_running
    /\ ev.stats.total_sources = 1
    /\ ev.stats.active_sources = 0
    /\ ev.stats.error_sources = 1
    /\ ev.stats.total_subscriptions = 1
    /\ ev.stats.active_subscriptions = 0

Pairs(subs) == {<<subs[k].user_id, subs[k].source_id>> : k \in DOMAIN subs}

(* C25: in every reachable state table subscriptions holds at most one row *)
(* per pair of subscriber and source; storing a second subscription for a  *)
(* stored pair is rejected with an error and leaves the table as it was,   *)
(* and storing one for a new pair is not rejected.                         *)
C25_OneSubscriptionPerPair ==
    /\ \A k1, k2 \in DOMAIN subscriptions :
          /\ subscriptions[k1].user_id = subscriptions[k2].user_id
          /\ subscriptions[k1].source_id = subscriptions[k2].source_id
          => k1 = k2
    /\ ev.type = "insert" =>
          /\ ev.rejected <=> <<ev.user, ev.src>> \in Pairs(ev.before)
          /\ ev.rejected => subscriptions = ev.before
          /\ ~ev.rejected => <<ev.user, ev.src>> \in Pairs(subscriptions)
C25_Witness ==
    /\ ev.type = "insert"
    /\ ev.rejected
    /\ Len(subscriptions) >= 2
    /\ \E k \in DOMAIN subscriptions :
          /\ subscriptions[k].user_id = ev.user
          /\ ~subscriptions[k].is_active

(* A URL without a network location, or with a scheme that is not http or  *)
(* https.                                                                  *)
InvalidUrl(url) == url.domain = "none" \/ url.scheme \in {"ftp", "javascript"}

(* C26: detect_source_type raises ScraperError, and returns no source      *)
(* type, for every invalid URL.  Only the network location is tested       *)
(* (line 62); the scheme is never looked at.                               *)
C26_InvalidUrlRaises ==
    ev.type = "detect" /\ InvalidUrl(ev.url) => ev.result = DetectionFailed

(* C27 as stated: a check sets the watermark to the current time exactly   *)
(* when its fetch succeeded and the filter returned a new item.  When the  *)
(* distribution of the new items raises (the subscription query fails),    *)
(* lines 173-174 are skipped and the watermark stays.                      *)
C27_WatermarkIffNewItems ==
    CheckDone /\ ev.solo =>
        IF ev.fetch_ok /\ ev.new_items # <<>>
        THEN ev.post.last_updated = At(now)
        ELSE ev.post.last_updated = ev.pre.last_updated

(* C27, amended: a check sets the watermark to the current time exactly    *)
(* when its fetch succeeded, the filter returned at least one new item and *)
(* the distribution did not end in an unexpected failure, whether or not   *)
(* any subscriber exists; every other check leaves the watermark as it     *)
(* was.                                                                    *)
C27_WatermarkIffDistributed ==
    CheckDone /\ ev.solo =>
        IF ev.fetch_ok /\ ev.new_items # <<>> /\ ev.result = "ok"
        THEN ev.post.last_updated = At(now)
        ELSE ev.post.last_updated = ev.pre.last_updated
C27_Witness ==
    /\ CheckDone
    /\ ev.solo
    /\ ev.result = "ok"
    /\ ev.new_items # <<>>
    /\ ev.subs = <<>>
    /\ ev.log = <<>>
    /\ ev.pre.last_updated = NoTime
    /\ ev.post.last_updated = At(now)

(* C28: within one fetch the wait after failed attempt k, for k from 0 to  *)
(* MAX_RETRIES - 1, is RETRY_DELAY * 2^k, and attempt k + 1 follows it; no *)
(* wait follows the last failed attempt or a successful attempt: a check   *)
(* sleeps in scrape_source only after such a failed attempt.               *)
C28_BackoffDoubles ==
    /\ ev.type = "attempt_failed" =>
          /\ ev.attempt \in 0..(cfg.MAX_RETRIES - 1)
          /\ ev.delay = RETRY_DELAY * 2^(ev.attempt)
          /\ checks[ev.owner][ev.src].pc = "backoff"
          /\ checks[ev.owner][ev.src].attempt = ev.attempt
    /\ ev.type = "fetch" /\ ev.attempt > 0 =>
          /\ ev.attempt <= cfg.MAX_RETRIES
          /\ checks[ev.owner][ev.src].attempt = ev.attempt
    /\ \A o \in Owners, s \in Stored :
          checks[o][s].pc = "backoff" =>
              /\ checks[o][s].attempt < cfg.MAX_RETRIES
              /\ ev.type = "attempt_failed" \/ ev.owner # o
    /\ CheckDone /\ ~ev.fetch_ok => ev.attempts = cfg.MAX_RETRIES + 1
C28_Witness ==
    /\ ev.type = "attempt_failed"
    /\ ev.attempt = 2
    /\ ev.delay = 4 * RETRY_DELAY

(* The checks loop task k has issued and not yet collected, and those of   *)
(* them that have not returned.                                            *)
Issued(k) == {s \in Stored : checks[k][s].pc # "idle"}
Unreturned(k) == {s \in Stored : checks[k][s].pc \notin {"idle", "done", "cancelled"}}

(* C29: the batches of a tick run strictly in sequence.  While a batch is  *)
(* awaited, every check of the batches before it has returned and one      *)
(* pacing delay of 1 has been slept through per earlier batch; checks      *)
(* exist for the awaited batch only, so that at most 10 checks the         *)
(* scheduler issued are in flight; a pacing delay is slept only while a    *)
(* further batch remains, and none after the last batch.                   *)
C29_BatchesInSequence ==
    /\ \A k \in Tasks :
          LET l == loops[k]
          IN  /\ Cardinality(Issued(k)) <= 10
              /\ Issued(k) # {} =>
                    /\ l.pc = "gather"
                    /\ Issued(k) \subseteq {l.srcs[n] : n \in (l.i + 1)..Len(l.srcs)}
              /\ l.pc = "gather" =>
                    /\ l.i = 10 * (Len(l.batches) - 1)
                    /\ l.paces = Len(l.batches) - 1
                    /\ Len(l.outcomes) = l.i
                    /\ \A n \in 1..l.i :
                          /\ l.outcomes[n].src = l.srcs[n]
                          /\ l.outcomes[n].result # "none"
              /\ l.pc = "pace" =>
                    /\ l.i + 10 < Len(l.srcs)
                    /\ Unreturned(k) = {}
    /\ ev.type = "batch_done" =>
          /\ ~ev.last => ev.sleep = 1 /\ loops[ev.task].pc = "pace"
          /\ ev.last => /\ loops[ev.task].pc = "sleep"
                        /\ ev.sleep = SCHEDULER_INTERVAL
                        /\ ev.paces = Len(ev.batches) - 1
                        /\ \A n \in DOMAIN ev.outcomes : ev.outcomes[n].result # "none"
C29_Witness ==
    /\ loops[1].pc = "gather"
    /\ Len(loops[1].srcs) = 12
    /\ loops[1].i = 10
    /\ loops[1].paces = 1
    /\ Cardinality(Unreturned(1)) = 2

(* The loop tasks in a tick: a batch of theirs is awaited, or the pacing    *)
(* delay before their next batch.                                          *)
InTick == {k \in Tasks : loops[k].pc \in {"gather", "pace"}}

(* C30: the ticks of one scheduler never overlap: at most one tick is in   *)
(* progress at any time, and a tick starts only after every batch of the   *)
(* tick before it has completed and the poll interval has then been slept: *)
(* the start of a tick finds no other tick in progress, and the last batch *)
(* of a tick is followed by the sleep of SCHEDULER_INTERVAL.               *)
C30_TicksNeverOverlap ==
    /\ Cardinality(InTick) <= 1
    /\ ev.type = "tick" /\ ev.loaded # <<>> => InTick = {ev.task}
    /\ TickDone => loops[ev.task].pc = "sleep" /\ ev.sleep = SCHEDULER_INTERVAL

(* A cycle of a loop task failed: loading the active sources raised. *)
CycleFailed == ev.type = "tick" /\ ev.failed

(* C31, as stated: after an unexpected error in a check cycle the loop is   *)
(* not terminated and backs off for the cool-down of 60 before its next    *)
(* cycle.                                                                  *)
C31_CycleFailureCoolsDown ==
    CycleFailed =>
        /\ loops[ev.task].pc = "sleep"
        /\ ev.sleep = COOL_DOWN

(* C31, amended: an unexpected error in a check cycle never terminates the *)
(* scheduler loop: the cycle ends, the loop task stays alive and sleeps    *)
(* the poll interval as after any cycle, and the loop task that wakes from *)
(* that sleep while the scheduler is running starts another cycle.         *)
C31_CycleFailureKeepsLoop ==
    /\ CycleFailed =>
          /\ loops[ev.task].pc = "sleep"
          /\ ev.task \in AliveLoopTasks
          /\ ev.sleep = SCHEDULER_INTERVAL
    /\ \A k \in Tasks : loops[k].failed => loops[k].pc = "sleep"
    /\ ev.type = "loop_exit" => ~is_running
C31_Witness ==
    /\ ev.type = "tick"
    /\ ev.after_failure
    /\ ~ev.failed
    /\ ev.loaded # <<>>
    /\ loops[ev.task].pc = "gather"

(* C32: deactivation is terminal for the engine.  No step of the engine    *)
(* (a tick, a check of a tick, a forced check) sets the activation flag of *)
(* a source: a cleared flag stays cleared until the flag is set from       *)
(* outside; and a tick that starts while the flag of a source is cleared   *)
(* neither loads the source nor issues a check of it.                      *)
C32_DeactivationTerminal ==
    /\ [][ev'.type # "set_active" =>
            \A s \in Stored : sources'[s].is_active => sources[s].is_active]_vars
    /\ [][ev'.type = "tick" =>
            \A s \in Stored : ~sources[s].is_active =>
                /\ \A n \in DOMAIN ev'.loaded : ev'.loaded[n] # s
                /\ s \notin loops'[ev'.task].at_load
                /\ checks'[ev'.task][s].pc = "idle"]_vars
C32_Witness ==
    /\ ev.type = "tick"
    /\ ~ev.failed
    /\ ev.loaded = <<>>
    /\ \E s \in Stored :
          /\ ~sources[s].is_active
          /\ sources[s].error_count = DEACTIVATION_THRESHOLD
          /\ streak[s] = DEACTIVATION_THRESHOLD

(* The checks of source s that are in flight, whoever issued them. *)
ChecksInFlight(s) == {o \in Owners : InFlight(checks[o][s])}

(* C33: the fields of a source are written by at most one check at a time: *)
(* under any interleaving of ticks and forced checks no two checks of one  *)
(* source are in flight together, and no update of its counters is lost:   *)
(* the commit of a check leaves the check counter one above the counter    *)
(* that was committed before it.                                           *)
C33_OneCheckPerSource ==
    /\ \A s \in Stored : Cardinality(ChecksInFlight(s)) <= 1
    /\ CheckDone => ev.post.check_count = ev.before.check_count + 1

(* The positions of item x in a list of items. *)
PositionsOf(items, x) == {i \in DOMAIN items : items[i] = x}

(* C34: within one check the items are delivered in fetch order.  The list *)
(* of new items keeps the order of the fetched list, and every delivery    *)
(* attempt for an item is made before every delivery attempt for an item   *)
(* that follows it in the fetched list.                                    *)
C34_DeliveredInFetchOrder ==
    CheckDone /\ ev.fetch_ok =>
        /\ \A p, q \in DOMAIN ev.new_items :
              p < q /\ ev.new_items[p] # ev.new_items[q] =>
                  \E a \in PositionsOf(ev.fetch.items, ev.new_items[p]),
                     b \in PositionsOf(ev.fetch.items, ev.new_items[q]) : a < b
        /\ \A m, n \in DOMAIN ev.log :
              (/\ ev.log[m].item # ev.log[n].item
               /\ \A a \in PositionsOf(ev.fetch.items, ev.log[m].item),
                     b \in PositionsOf(ev.fetch.items, ev.log[n].item) : a < b)
              => m < n
C34_Witness ==
    /\ CheckDone
    /\ Len(ev.log) = 4
    /\ Len(ev.subs) = 2
    /\ ev.log[1].item = ev.fetch.items[1]
    /\ ev.log[2].item = ev.fetch.items[1]
    /\ ev.log[3].item = ev.fetch.items[2]
    /\ ev.log[4].item = ev.fetch.items[2]
    /\ ev.fetch.items[1] # ev.fetch.items[2]
    /\ ev.log[1].user # ev.log[2].user

(* C35: between any two consecutive delivery attempts of one distribution  *)
(* there is the pacing delay of 0.1, whether the earlier attempt succeeded *)
(* or failed: a delivery attempt that is not the first of its distribution *)
(* begins when asyncio.sleep(0.1) has returned (paused).                   *)
C35_PauseBetweenDeliveries ==
    ev.type = "send" /\ checks[ev.owner][ev.src].log # <<>> => ev.paused

(* The users a log delivered to. *)
DeliveredTo(log) == {log[n].user : n \in {m \in DOMAIN log : log[m].ok}}

(* C36: the only write of the engine to a subscription is its              *)
(* last_notified after a successful delivery to its subscriber.  A step    *)
(* of the engine deletes and creates no subscription and changes neither   *)
(* its user, its source, its is_active nor its notification_enabled, even  *)
(* when deliveries failed; it changes last_notified only at the commit of  *)
(* a check that delivered to the subscriber, so that a subscriber whose    *)
(* deliveries all failed keeps its last_notified.                          *)
C36_OnlyLastNotifiedWritten ==
    [][ev'.type # "unsubscribe" =>
          /\ DOMAIN subscriptions' = DOMAIN subscriptions
          /\ \A k \in DOMAIN subscriptions :
                /\ subscriptions'[k].user_id = subscriptions[k].user_id
                /\ subscriptions'[k].source_id = subscriptions[k].source_id
                /\ subscriptions'[k].is_active = subscriptions[k].is_active
                /\ subscriptions'[k].notification_enabled = subscriptions[k].notification_enabled
                /\ subscriptions'[k].last_notified # subscriptions[k].last_notified =>
                      /\ ev'.type = "check_done"
                      /\ subscriptions[k].source_id = ev'.src
                      /\ subscriptions[k].user_id \in DeliveredTo(ev'.log)
                      /\ subscriptions'[k].last_notified = At(now)]_vars
C36_Witness ==
    /\ CheckDone
    /\ \E k1, k2 \in DOMAIN subscriptions :
          /\ subscriptions[k1].last_notified = NoTime
          /\ subscriptions[k1].is_active
          /\ subscriptions[k1].notification_enabled
          /\ \E n \in DOMAIN ev.log : ev.log[n].user = subscriptions[k1].user_id /\ ~ev.log[n].ok
          /\ subscriptions[k1].user_id \notin DeliveredTo(ev.log)
          /\ subscriptions[k2].last_notified = At(now)
          /\ subscriptions[k2].user_id \in DeliveredTo(ev.log)

(* The checks that have begun, and whether none of them is still running. *)
ChecksBegun == MaxChecks - nchecks
NoCheckRunning == \A o \in Owners, s \in Stored : ~InFlight(checks[o][s])

(* C37: a check whose fetch failed after all retries has recorded the      *)
(* check timestamp and has raised the check counter of the source by       *)
(* exactly 1, as a successful check does, so that after any sequence of    *)
(* completed checks the counter has grown by the number of checks          *)
(* performed.                                                              *)
C37_CounterCountsChecks ==
    /\ CheckDone /\ ~ev.fetch_ok =>
          /\ ev.post.last_checked = At(ev.started)
          /\ ev.post.check_count = ev.before.check_count + 1
    /\ NoCheckRunning =>
          \A s \in Stored :
              sources[s].check_count = (DEACTIVATION_THRESHOLD - 1) + ChecksBegun

(* A forced check of a source whose activation flag was cleared when the   *)
(* check began has returned.                                               *)
ForcedCheckOfInactive == CheckDone /\ ev.owner = ForceOwner /\ ~ev.pre.is_active

(* C38: force_check_source on a source whose activation flag is cleared    *)
(* still checks it: the source is fetched, the check timestamp and the     *)
(* check counter are written, new items are distributed to the resolved    *)
(* subscribers and then the watermark is set and the error count reset to  *)
(* zero; the check leaves the activation flag as it finds it, cleared.     *)
C38_ForceChecksInactiveSource ==
    ForcedCheckOfInactive =>
        /\ ev.attempts >= 1
        /\ ev.post.last_checked = At(ev.started)
        /\ ev.post.check_count = ev.pre.check_count + 1
        /\ ev.post.is_active => ev.before.is_active
        /\ ev.solo => ~ev.post.is_active
        /\ ev.result = "ok" /\ ev.new_items # <<>> =>
              /\ \A j \in DOMAIN ev.subs :
                    \E n \in DOMAIN ev.log :
                        /\ ev.log[n].user = subscriptions[ev.subs[j]].user_id
                        /\ ev.log[n].item = ev.new_items[1]
              /\ ev.post.error_count = 0
              /\ ev.post.last_updated = At(now)
C38_Witness ==
    /\ ForcedCheckOfInactive
    /\ ev.pre.error_count = DEACTIVATION_THRESHOLD
    /\ ev.new_items # <<>>
    /\ Len(ev.log) >= 1
    /\ ev.log[1].ok
    /\ ev.post.error_count = 0
    /\ ~ev.post.is_active
    /\ ~sources[ev.src].is_active

(* The kinds of source whose fetcher answers a failed request with the     *)
(* empty list.                                                             *)
SwallowingKinds == {"youtube", "reddit", "twitter"}

(* C39: for a source of kind youtube, reddit or twitter a failure of the   *)
(* feed request becomes an empty item list on the first attempt: no        *)
(* attempt of its fetch fails, so that there is no retry and no source     *)
(* error; the check ends as a successful check that found nothing, with    *)
(* the error count and the activation flag as they were.                   *)
C39_SwallowedFailureIsEmptyFetch ==
    /\ ev.type = "attempt_failed" => sources[ev.src].type \notin SwallowingKinds
    /\ ev.type = "fetch" /\ ev.attempt > 0 => sources[ev.src].type \notin SwallowingKinds
    /\ CheckDone /\ ev.pre.type \in SwallowingKinds =>
          /\ ev.attempts = 1
          /\ ev.result # "scraper_error"
          /\ ~ev.deactivated
          /\ ~ev.fetch.resp.ok =>
                /\ ev.fetch_ok
                /\ ev.fetch.items = <<>>
                /\ ev.log = <<>>
                /\ ev.result = "ok"
                /\ ev.post.error_count = ev.pre.error_count
                /\ ev.post.is_active = ev.pre.is_active
C39_Witness ==
    /\ CheckDone
    /\ ev.pre.type = "twitter"
    /\ ~ev.fetch.resp.ok
    /\ ev.pre.error_count = DEACTIVATION_THRESHOLD - 1
    /\ ev.post.error_count = DEACTIVATION_THRESHOLD - 1
    /\ ev.post.is_active
    /\ nchecks = 0

(* The check of source s that loop task k issued has not returned. *)
Pending(k, s) == checks[k][s].pc \in {"new", "fetch", "backoff", "send", "pace"}

(* C40: every check terminates.  When every fetch call and every delivery  *)
(* call returns or fails, a check makes at most MAX_RETRIES + 1 fetch      *)
(* attempts and at most MAX_ITEMS_PER_UPDATE times the number of resolved  *)
(* subscribers delivery attempts, every check that was issued returns, and *)
(* the cycle that awaits a batch of checks completes.                      *)
C40_ChecksTerminate ==
    /\ [](CheckDone =>
             /\ ev.attempts <= cfg.MAX_RETRIES + 1
             /\ Len(ev.log) <= cfg.MAX_ITEMS_PER_UPDATE * Len(ev.subs))
    /\ [](\A k \in Tasks, s \in Stored :
             /\ checks[k][s].attempt <= cfg.MAX_RETRIES
             /\ Len(checks[k][s].log) <= cfg.MAX_ITEMS_PER_UPDATE * Len(checks[k][s].subs))
    /\ \A k \in Tasks, s \in 1..NumBatchSources :
          Pending(k, s) ~> (checks[k][s].pc = "done")
    /\ \A k \in Tasks : (loops[k].pc = "gather") ~> (loops[k].pc = "sleep")
C40_Witness ==
    /\ CheckDone
    /\ cfg.MAX_RETRIES = 1
    /\ cfg.MAX_ITEMS_PER_UPDATE = 2
    /\ ev.attempts = 2
    /\ Len(ev.subs) = 2
    /\ Len(ev.log) = 4
    /\ Len(ev.new_items) = 2

====
